---- MODULE Spec2Model ----
(***************************************************************************)
(* Bentobox instance lifecycle and control plane.                          *)
(*                                                                         *)
(* These state machines share this module:                                 *)
(*   SpecHub / SpecSlow  the daemon's serial hub: the reader thread, the   *)
(*                       per-subscriber bounded queues and the relay       *)
(*                       threads of proxy_serial_stream;                   *)
(*   Spec                the instance directory (id.pid, id.sock, the      *)
(*                       daemon's stdout log), the manager's inspect/start *)
(*                       and the daemon's run();                           *)
(*   SpecSvc             the daemon's control socket: handle_client and    *)
(*                       the tunnels it starts;                            *)
(*   SpecReg             the instance registry: create and delete of one   *)
(*                       instance name.                                    *)
(***************************************************************************)
EXTENDS Integers, Sequences, FiniteSets, TLC

VARIABLES
    \* ---- serial hub (instance_daemon.rs) ----
    hub,          \* SerialHub: [next_id, interactive_owner, subscribers]
    poisoned,     \* the Mutex around the SerialHub is poisoned
    chan,         \* id -> the sync_channel of that subscriber: [buf, rx]
    attachedAt,   \* id -> number of broadcasts completed when it attached (history)
    readerPc,     \* position of the serial reader thread
    nread,        \* chunks the reader has read from guest_output; chunk k is the k-th
    serial_log,   \* serial.log: the chunks appended to it
    client,       \* c -> the relay threads of one proxy_serial_stream call
    delivered,    \* c -> chunks written to the client's socket
    guest_input,  \* writes to guest input: the client each came from
    \* ---- instance directory, manager and daemon processes ----
    pidFile,      \* id.pid: absent, unparsable text, or the text of a pid
    sockFile,     \* id.sock: None, or the daemon whose listener the path names
    stdoutLog,    \* id.stdout.log: the lines in it, each with its writer (history)
    stderrLog,    \* id.stderr.log: the lines in it
    foreign,      \* what kill(ForeignPid, 0) answers
    netValid,     \* what validate_network_mode answers for the instance's config
    mgr,          \* m -> the bentoctl process m: inspect, then start or stop
    dmn,          \* d -> the daemon process spawned by manager d: run()
    \* ---- control socket: handle_client (instance_daemon.rs) ----
    conn,         \* c -> connection c: its request and the handler's position
    devOpens,     \* the driver.open_device(Vsock) calls: who for, and when
    clock,        \* seconds the accept loop has slept in handle_client
    \* ---- instance registry: create and delete (instance_manager.rs) ----
    dir,          \* the instance directory: absent, or what it holds
    op,           \* k -> the bentoctl create or delete process k
    \* ---- bentoctl shell-proxy: ControlClient (shell_proxy.rs) ----
    wire,         \* the response lines the peer of the control socket sends, in order
    cli,          \* the control client: position, timeouts, bytes relayed
    \* ---- vsock relay: proxy_streams (instance_daemon.rs) ----
    tun,          \* t -> tunnel t: its two peers and its two relay threads
    \* ---- read_json_line (instance_control.rs) ----
    reqLine,      \* the request line a client sends: its length and whether it is UTF-8
    rd,           \* read_json_line at work on it: bytes pushed, result
    \* ---- Instance::root_disk (instance.rs) ----
    inst,         \* the instance root_disk is called on: config.disks and what is at rootfs.img
    diskRes,      \* the call of root_disk and what it returned
    \* ---- ImageStore (images/store.rs) ----
    regFile,      \* registry.json: the tags and the image records
    imageDirs,    \* the image ids that have a directory under the store root
    rm,           \* the last bentoctl images command: what it was given, what it returned, what it found
    \* ---- decompress_to_file (images/store.rs) ----
    blob,         \* a byte string and the frame compress_to_file made of it
    outFile,      \* the destination file: its bytes and the position of the handle
    dz,           \* decompress_to_file at work: decoder position, total_len, result
    \* ---- serial clients: the far end of the stream (instance_daemon.rs) ----
    peer,         \* c -> what client c has done with its end of the stream
    \* ---- VirtualMachine state subscriptions (driver/vz/vm.rs) ----
    current_state, \* the state the observer stored last
    state_subscribers, \* the subscribers' channels, in the order they were pushed
    vchan,        \* s -> what the channel of subscriber s holds
    sub,          \* s -> the thread in subscribe_state for s, and then its receiver
    obs,          \* the observer callback: the state it publishes and where it is
    \* ---- write_cidata_iso (cidata_iso9660.rs) ----
    entries,      \* the files to encode: for each the length of its name and of its contents
    iso           \* the call of write_cidata_iso: the layout it computed and what it wrote where

hubVars == <<hub, poisoned, chan, attachedAt, readerPc, nread, serial_log, client,
             delivered, guest_input>>

lifeVars == <<pidFile, sockFile, stdoutLog, stderrLog, foreign, netValid, mgr, dmn>>

svcVars == <<conn, devOpens, clock>>

regVars == <<dir, op>>

cliVars == <<wire, cli>>

tunVars == <<tun>>

lineVars == <<reqLine, rd>>

diskVars == <<inst, diskRes>>

storeVars == <<regFile, imageDirs, rm>>

dzVars == <<blob, outFile, dz>>

peerVars == <<peer>>

vmVars == <<current_state, state_subscribers, vchan, sub, obs>>

isoVars == <<entries, iso>>

auxVars == <<cliVars, tunVars, lineVars, diskVars, storeVars, dzVars, peerVars, vmVars, isoVars>>
coreVars == <<hubVars, lifeVars, svcVars, regVars>>
notCliVars == <<coreVars, tunVars, lineVars, diskVars, storeVars, dzVars, peerVars, vmVars, isoVars>>
notTunVars == <<coreVars, cliVars, lineVars, diskVars, storeVars, dzVars, peerVars, vmVars, isoVars>>
notLineVars == <<coreVars, cliVars, tunVars, diskVars, storeVars, dzVars, peerVars, vmVars, isoVars>>
notDiskVars == <<coreVars, cliVars, tunVars, lineVars, storeVars, dzVars, peerVars, vmVars, isoVars>>
notStoreVars == <<coreVars, cliVars, tunVars, lineVars, diskVars, dzVars, peerVars, vmVars, isoVars>>
notDzVars == <<coreVars, cliVars, tunVars, lineVars, diskVars, storeVars, peerVars, vmVars, isoVars>>
notPeerVars == <<coreVars, cliVars, tunVars, lineVars, diskVars, storeVars, dzVars, vmVars, isoVars>>
notVmVars == <<coreVars, cliVars, tunVars, lineVars, diskVars, storeVars, dzVars, peerVars, isoVars>>
notIsoVars == <<coreVars, cliVars, tunVars, lineVars, diskVars, storeVars, dzVars, peerVars, vmVars>>

\* What the actions of one state machine leave alone.
notHubVars == <<lifeVars, svcVars, regVars, auxVars>>
notLifeVars == <<hubVars, svcVars, regVars, auxVars>>
notSvcVars == <<hubVars, lifeVars, regVars, auxVars>>
\* create and delete touch the directory and id.pid.
notRegVars == <<hubVars, svcVars, sockFile, stdoutLog, stderrLog, netValid, mgr, dmn, auxVars>>

vars == <<hubVars, lifeVars, svcVars, regVars, auxVars>>

None == 0

Range(seq) == {seq[i] : i \in 1..Len(seq)}

\* ------------------------------------------------------------------ bounds

\* Chunks the guest emits (SpecHub).
MaxChunks == 2
\* Chunks the guest emits in SpecSlow: enough to overflow one queue.
MaxSlowChunks == 67
\* Chunks interactive clients send towards guest input.
MaxInput == 1
\* Chunks the client of SpecEsc sends.
MaxEscInput == 2

\* mpsc::sync_channel::<Vec<u8>>(64)
QueueCapacity == 64

\* Connections that reach proxy_serial_stream, and the ids the hub hands out.
Clients == {1, 2}
Ids == Clients
Access == {"interactive", "watch"}

\* The escape key (Ctrl-]) and another byte.
EscapeByte == 29
OtherByte == 97
\* Chunks a client sends: one or two bytes.
Chunks == UNION {[1..n -> {EscapeByte, OtherByte}] : n \in 1..2}
\* chunk.contains(&0x1d)
HasEscape(chunk) == EscapeByte \in Range(chunk)
\* Chunks of a client that never sends the escape byte.
PlainChunks == {chunk \in Chunks : Len(chunk) = 1 /\ ~HasEscape(chunk)}

\* ------------------------------------------------------------- SerialHub

\* SerialHub::new
SerialHubNew == [next_id |-> 1, interactive_owner |-> None, subscribers |-> {}]

\* SerialHub::attach: the refusal test.
AttachRefusedMutant(h, access) == FALSE
AttachRefused(h, access) ==
    access = "interactive" /\ h.interactive_owner # None

\* SerialHub::attach: the hub after a successful attach (the new id is h.next_id).
Attach(h, access) ==
    [next_id |-> h.next_id + 1,
     interactive_owner |->
        IF access = "interactive" THEN h.next_id ELSE h.interactive_owner,
     subscribers |-> h.subscribers \cup {h.next_id}]

\* SerialHub::detach
DetachMutantKeepsOwner(h, id) ==
    [h EXCEPT !.subscribers = @ \ {id}]
Detach(h, id) ==
    [h EXCEPT !.subscribers = @ \ {id},
              !.interactive_owner = IF @ = id THEN None ELSE @]

\* SerialHub::can_write_input
CanWriteInput(h, id) == h.interactive_owner = id

\* mpsc::SyncSender::try_send: "ok", "full" or "disconnected".
TrySendMutantUnbounded(ch) ==
    IF ~ch.rx THEN "disconnected" ELSE "ok"
TrySend(ch) ==
    IF ~ch.rx THEN "disconnected"
    ELSE IF Len(ch.buf) >= QueueCapacity THEN "full"
    ELSE "ok"

\* SerialHub::broadcast: the ids collected in `disconnected`.
BroadcastDroppedMutantNone(h, ch) == {}
BroadcastDropped(h, ch) ==
    {id \in h.subscribers : TrySend(ch[id]) # "ok"}

\* SerialHub::broadcast: `for id in disconnected { self.detach(id) }`
RECURSIVE DetachAll(_, _)
DetachAll(h, gone) ==
    IF gone = {} THEN h
    ELSE LET id == CHOOSE x \in gone : TRUE
         IN DetachAll(Detach(h, id), gone \ {id})

\* SerialHub::broadcast: the hub when the call returns.
BroadcastHub(h, ch) == DetachAll(h, BroadcastDropped(h, ch))

\* SerialHub::broadcast: the channels after the try_send of `chunk` to each.
BroadcastChan(h, ch, chunk) ==
    [id \in Ids |->
        IF id \in h.subscribers /\ TrySend(ch[id]) = "ok"
        THEN [ch[id] EXCEPT !.buf = Append(@, chunk)]
        ELSE ch[id]]

\* The sender of a channel lives in hub.subscribers: removing the id drops it.
SenderAlive(id) == id \in hub.subscribers

\* Broadcast calls that have returned.
Broadcasts == IF readerPc \in {"log", "broadcast"} THEN nread - 1 ELSE nread

\* ------------------------------------------------- serial reader thread

\* spawn_serial_reader: guest_output.read(&mut buf): the next chunk, or EOF/error.
ReaderRead(limit) ==
    /\ readerPc = "read"
    /\ \/ /\ nread < limit
          /\ nread' = nread + 1
          /\ readerPc' = "log"
       \/ /\ readerPc' = "done"
          /\ UNCHANGED nread
    /\ UNCHANGED <<hub, chan, attachedAt, serial_log, client, delivered, guest_input,
                   poisoned, notHubVars>>

\* spawn_serial_reader: serial_log.write_all(chunk); an error is printed and ignored.
ReaderLogWrite(ok) ==
    IF ok THEN Append(serial_log, nread) ELSE serial_log

ReaderLog(outcomes) ==
    /\ readerPc = "log"
    /\ \E ok \in outcomes : serial_log' = ReaderLogWrite(ok)
    /\ readerPc' = "broadcast"
    /\ UNCHANGED <<hub, chan, attachedAt, nread, client, delivered, guest_input,
                   poisoned, notHubVars>>

\* Mutex::lock on the hub: Err(PoisonError) once a thread has panicked with
\* the lock held. No caller takes the guard out of the error.
LockHub(is_poisoned) == IF is_poisoned THEN "poisoned" ELSE "ok"

\* spawn_serial_reader: hub.lock() then hub.broadcast(chunk).
ReaderBroadcast ==
    /\ readerPc = "broadcast"
    /\ IF LockHub(poisoned) = "ok"
       THEN /\ hub' = BroadcastHub(hub, chan)
            /\ chan' = BroadcastChan(hub, chan, nread)
            /\ readerPc' = "read"
       ELSE \* Err(err): the message is printed and the loop is left
            /\ readerPc' = "done"
            /\ UNCHANGED <<hub, chan>>
    /\ UNCHANGED <<attachedAt, nread, serial_log, client, delivered, guest_input,
                   poisoned, notHubVars>>

\* ------------------------------------------------- proxy_serial_stream

\* proxy_serial_stream: hub.attach(access), client_stream.try_clone(), and the
\* spawn of the output task and (interactive only) the input task.
ProxyAttach(c, access) ==
    /\ client[c].mainPc = "idle"
    /\ IF LockHub(poisoned) # "ok"
       THEN /\ client' = [client EXCEPT ![c].access = access, ![c].mainPc = "poisoned"]
            /\ UNCHANGED <<hub, chan, attachedAt>>
       ELSE IF AttachRefused(hub, access)
       THEN /\ client' = [client EXCEPT ![c].access = access, ![c].mainPc = "refused"]
            /\ UNCHANGED <<hub, chan, attachedAt>>
       ELSE LET id == hub.next_id IN
            /\ hub' = Attach(hub, access)
            /\ attachedAt' = [attachedAt EXCEPT ![id] = Broadcasts]
            /\ \/ /\ chan' = [chan EXCEPT ![id] = [buf |-> <<>>, rx |-> TRUE]]
                  /\ client' = [client EXCEPT ![c] =
                        [access |-> access, id |-> id,
                         mainPc |-> IF access = "interactive" THEN "join_input" ELSE "detach",
                         outPc |-> "recv",
                         inPc |-> IF access = "interactive" THEN "read" ELSE "none",
                         outBuf |-> None, inBuf |-> <<>>]]
               \/ \* try_clone fails: `?` returns, output_rx is dropped, no detach
                  /\ chan' = [chan EXCEPT ![id] = [buf |-> <<>>, rx |-> FALSE]]
                  /\ client' = [client EXCEPT ![c].access = access, ![c].id = id,
                                               ![c].mainPc = "clone_failed"]
    /\ UNCHANGED <<readerPc, nread, serial_log, delivered, guest_input,
                   poisoned, notHubVars>>

\* output task: output_rx.recv()
OutRecv(c) ==
    LET id == client[c].id IN
    /\ client[c].outPc = "recv"
    /\ IF chan[id].buf # <<>>
       THEN /\ client' = [client EXCEPT ![c].outBuf = Head(chan[id].buf),
                                        ![c].outPc = "write"]
            /\ chan' = [chan EXCEPT ![id].buf = Tail(@)]
       ELSE /\ ~SenderAlive(id)
            /\ client' = [client EXCEPT ![c].outPc = "done"]
            /\ chan' = [chan EXCEPT ![id].rx = FALSE]
    /\ UNCHANGED <<hub, attachedAt, readerPc, nread, serial_log, delivered, guest_input,
                   poisoned, notHubVars>>

\* output task: output_stream.write_all(&chunk)?
OutWrite(c) ==
    LET id == client[c].id IN
    /\ client[c].outPc = "write"
    /\ \/ /\ delivered' = [delivered EXCEPT ![c] = Append(@, client[c].outBuf)]
          /\ client' = [client EXCEPT ![c].outBuf = None, ![c].outPc = "recv"]
          /\ UNCHANGED chan
       \/ /\ client' = [client EXCEPT ![c].outBuf = None, ![c].outPc = "done"]
          /\ chan' = [chan EXCEPT ![id] = [buf |-> <<>>, rx |-> FALSE]]
          /\ UNCHANGED delivered
    /\ UNCHANGED <<hub, attachedAt, readerPc, nread, serial_log, guest_input,
                   poisoned, notHubVars>>

\* input task: client_stream.read(&mut buf)?: data (while the clients still
\* have some to send), EOF, or an error.
InReadMutantEscapeEnds(c, limit, chunks) ==
    /\ client[c].inPc = "read"
    /\ \/ /\ Len(guest_input) < limit
          /\ \E chunk \in chunks :
                client' = [client EXCEPT ![c].inBuf = chunk,
                              ![c].inPc = IF HasEscape(chunk) THEN "ok" ELSE "check"]
       \/ client' = [client EXCEPT ![c].inPc = "ok", ![c].inBuf = <<>>]
       \/ client' = [client EXCEPT ![c].inPc = "err", ![c].inBuf = <<>>]
    /\ UNCHANGED <<hub, chan, attachedAt, readerPc, nread, serial_log, delivered, guest_input,
                   poisoned, notHubVars>>
InRead(c, limit, chunks) ==
    /\ client[c].inPc = "read"
    /\ \/ /\ Len(guest_input) < limit
          /\ \E chunk \in chunks :
                client' = [client EXCEPT ![c].inPc = "check", ![c].inBuf = chunk]
       \/ client' = [client EXCEPT ![c].inPc = "ok", ![c].inBuf = <<>>]
       \/ client' = [client EXCEPT ![c].inPc = "err", ![c].inBuf = <<>>]
    /\ UNCHANGED <<hub, chan, attachedAt, readerPc, nread, serial_log, delivered, guest_input,
                   poisoned, notHubVars>>

\* input task: hub.lock().can_write_input(client_id)
InCheck(c) ==
    /\ client[c].inPc = "check"
    /\ client' = IF LockHub(poisoned) # "ok"
                 THEN [client EXCEPT ![c].inPc = "err", ![c].inBuf = <<>>]
                 ELSE IF CanWriteInput(hub, client[c].id)
                 THEN [client EXCEPT ![c].inPc = "write"]
                 ELSE [client EXCEPT ![c].inPc = "ok", ![c].inBuf = <<>>]
    /\ UNCHANGED <<hub, chan, attachedAt, readerPc, nread, serial_log, delivered, guest_input,
                   poisoned, notHubVars>>

\* input task: guest_input.write_all(&buf[..n])?
InWrite(c) ==
    /\ client[c].inPc = "write"
    /\ \/ /\ guest_input' = Append(guest_input, c)
          /\ client' = [client EXCEPT ![c].inPc = "read"]
       \/ /\ client' = [client EXCEPT ![c].inPc = "err", ![c].inBuf = <<>>]
          /\ UNCHANGED guest_input
    /\ UNCHANGED <<hub, chan, attachedAt, readerPc, nread, serial_log, delivered,
                   poisoned, notHubVars>>

\* The input task panics inside the statement that holds the hub lock: the
\* thread ends and the mutex is poisoned.
InPanic(c) ==
    /\ client[c].inPc = "check"
    /\ ~poisoned
    /\ poisoned' = TRUE
    /\ client' = [client EXCEPT ![c].inPc = "panicked", ![c].inBuf = <<>>]
    /\ UNCHANGED <<hub, chan, attachedAt, readerPc, nread, serial_log, delivered, guest_input,
                   notHubVars>>

\* proxy_serial_stream: input_task.join(); on Err the subscriber is detached
\* and the function returns without joining the output task.
JoinInput(c) ==
    /\ client[c].mainPc = "join_input"
    /\ client[c].inPc \in {"ok", "err", "panicked"}
    /\ IF client[c].inPc = "ok"
       THEN /\ client' = [client EXCEPT ![c].mainPc = "detach"]
            /\ UNCHANGED hub
       ELSE /\ hub' = IF LockHub(poisoned) = "ok" THEN Detach(hub, client[c].id) ELSE hub
            /\ client' = [client EXCEPT ![c].mainPc = "done"]
    /\ UNCHANGED <<chan, attachedAt, readerPc, nread, serial_log, delivered, guest_input,
                   poisoned, notHubVars>>

\* proxy_serial_stream: the unconditional hub.detach(client_id)
MainDetach(c) ==
    /\ client[c].mainPc = "detach"
    /\ IF LockHub(poisoned) = "ok"
       THEN /\ hub' = Detach(hub, client[c].id)
            /\ client' = [client EXCEPT ![c].mainPc = "join_output"]
       ELSE \* `?` returns the error: no detach, the output task is not joined
            /\ client' = [client EXCEPT ![c].mainPc = "done"]
            /\ UNCHANGED hub
    /\ UNCHANGED <<chan, attachedAt, readerPc, nread, serial_log, delivered, guest_input,
                   poisoned, notHubVars>>

\* proxy_serial_stream: output_task.join()
JoinOutput(c) ==
    /\ client[c].mainPc = "join_output"
    /\ client[c].outPc = "done"
    /\ client' = [client EXCEPT ![c].mainPc = "done"]
    /\ UNCHANGED <<hub, chan, attachedAt, readerPc, nread, serial_log, delivered, guest_input,
                   poisoned, notHubVars>>

\* ------------------------------------------- control socket: handle_client

\* instance_control.rs: CONTROL_PROTOCOL_VERSION
CONTROL_PROTOCOL_VERSION == 1
\* instance_daemon.rs: the retry policy of a vsock open_service
SERVICE_OPEN_MAX_ATTEMPTS == 5
SERVICE_OPEN_RETRY_DELAY_SECS == 2

\* The versions a request may carry: the supported one and another.
Versions == {CONTROL_PROTOCOL_VERSION, CONTROL_PROTOCOL_VERSION + 1}

\* ServiceRegistry::default: the registered names ("telnet" stands for any
\* name that is not registered).
SERVICE_SSH == "ssh"
SERVICE_SERIAL == "serial"
Registered == {SERVICE_SSH, SERVICE_SERIAL}
ServiceNames == Registered \cup {"telnet"}

\* The options map of an open_service: empty ("none"), {"access": "watch"},
\* {"access": "interactive"}, or a map SerialOpenOptions does not
\* deserialize from (an unknown field, an unknown access).
OptionMaps == {"none", "watch", "interactive", "invalid"}

\* The id a client gives its request.
RequestIds == {"req-1", "req-2"}

\* The requests ControlRequest::read_from can return.
Requests ==
    [version : Versions, id : RequestIds, body : {"list_services"}, service : {"-"},
     options : {"none"}]
    \cup [version : Versions, id : RequestIds, body : {"open_service"},
          service : ServiceNames, options : OptionMaps]

\* parse_serial_open_options: the access asked for (default interactive),
\* or "error".
ParseSerialOpenOptions(options) ==
    CASE options = "none" -> "interactive"
      [] options = "watch" -> "watch"
      [] options = "interactive" -> "interactive"
      [] OTHER -> "error"

\* handle_client: the tests made on a request before anything is opened, in
\* program order: the error code of the first that fails, or "ok".
ValidateMutantNoVersionTest(req) ==
    IF req.body = "list_services" THEN "ok"
    ELSE IF req.service \notin Registered THEN "unknown_service"
    ELSE IF req.service = SERVICE_SSH /\ req.options # "none" THEN "unsupported_request"
    ELSE IF req.service = SERVICE_SERIAL /\ ParseSerialOpenOptions(req.options) = "error"
         THEN "unsupported_request"
    ELSE "ok"
Validate(req) ==
    IF req.version # CONTROL_PROTOCOL_VERSION THEN "unsupported_version"
    ELSE IF req.body = "list_services" THEN "ok"
    ELSE IF req.service \notin Registered THEN "unknown_service"
    ELSE IF req.service = SERVICE_SSH /\ req.options # "none" THEN "unsupported_request"
    ELSE IF req.service = SERVICE_SERIAL /\ ParseSerialOpenOptions(req.options) = "error"
         THEN "unsupported_request"
    ELSE "ok"

\* ControlResponse::v1_error, v1_starting, v1_opened, v1_services
ErrorFrame(code) ==
    [type |-> "error", code |-> code, attempt |-> 0, max_attempts |-> 0,
     retry_after_secs |-> 0]
StartingFrame(attempt) ==
    [type |-> "starting", code |-> "-", attempt |-> attempt,
     max_attempts |-> SERVICE_OPEN_MAX_ATTEMPTS,
     retry_after_secs |-> SERVICE_OPEN_RETRY_DELAY_SECS]
OpenedFrame ==
    [type |-> "opened", code |-> "-", attempt |-> 0, max_attempts |-> 0,
     retry_after_secs |-> 0]
ServicesFrame ==
    [type |-> "services", code |-> "-", attempt |-> 0, max_attempts |-> 0,
     retry_after_secs |-> 0]

\* What Driver::open_device(Vsock { port }) returns: the stream ("vsock"), an
\* error ("err"); no driver of the repository answers a Vsock request with
\* another device ("other"), which handle_client also provides for.
OpenDeviceOutcomes == {"vsock", "err"}

NoConn == [pc |-> "none", req |-> [version |-> CONTROL_PROTOCOL_VERSION, id |-> "-",
                                  body |-> "list_services", service |-> "-",
                                  options |-> "none"],
           attempt |-> 0, frames |-> <<>>, envelopes |-> <<>>, result |-> "none"]

\* handle_client is called from the accept loop: it is in progress for at
\* most one connection.
InHandler(c) == conn[c].pc \in {"ssh_open", "ssh_sleep"}

\* ControlResponse::v1_*: what every response carries beside its body.
EnvelopeMutantNoId(id) == [version |-> CONTROL_PROTOCOL_VERSION, id |-> "-"]
Envelope(id) == [version |-> CONTROL_PROTOCOL_VERSION, id |-> id]

\* response.write_to(&mut stream)?: `frames` lists the bodies of the frames
\* handed to write_to and `envelopes` their version and id; when the write
\* fails handle_client returns the error and the stream is dropped.
WriteFrame(c, id, frame, ok, pc_after) ==
    [conn EXCEPT ![c].frames = Append(@, frame),
                 ![c].envelopes = Append(@, Envelope(id)),
                 ![c].pc = IF ok THEN pc_after ELSE "closed",
                 ![c].result = IF ok THEN @ ELSE "io"]

\* The accept loop takes connection c and calls handle_client: the request
\* is read (when read_json_line fails, `line_read` is false, or the line is
\* no request, handle_client returns with no frame), validated,
\* and dispatched up to the first call of the driver; for a serial
\* open_service, `opened` is written and spawn_serial_tunnel starts the
\* thread that will run proxy_serial_stream.
Dispatch(c, line_read) ==
    /\ conn[c].pc = "none"
    /\ \A o \in Clients : ~InHandler(o)
    /\ \/ conn' = [conn EXCEPT ![c].pc = "closed", ![c].result = "bad_request"]
       \/ /\ line_read
          /\ \E req \in Requests, ok \in BOOLEAN :
            LET v == Validate(req)
                with_req == [conn EXCEPT ![c].req = req]
            IN  conn' =
                IF v # "ok"
                THEN [WriteFrame(c, req.id, ErrorFrame(v), ok, "closed") EXCEPT
                        ![c].req = req, ![c].result = IF ok THEN "rejected" ELSE "io"]
                ELSE IF req.body = "list_services"
                THEN [WriteFrame(c, req.id, ServicesFrame, ok, "closed") EXCEPT
                        ![c].req = req, ![c].result = IF ok THEN "listed" ELSE "io"]
                ELSE IF req.service = SERVICE_SSH
                THEN [with_req EXCEPT ![c].pc = "ssh_open", ![c].attempt = 1]
                ELSE [WriteFrame(c, req.id, OpenedFrame, ok, "serial") EXCEPT ![c].req = req]
    /\ UNCHANGED <<devOpens, clock, notSvcVars>>

\* handle_client with whatever the client sent as its request line.
HandleClient(c) == \E line_read \in BOOLEAN : Dispatch(c, line_read)

\* handle_client: `if attempt < SERVICE_OPEN_MAX_ATTEMPTS`, and the bound of
\* the loop: another attempt follows a failed one.
RetryAfterMutantOffByOne(attempt) == attempt <= SERVICE_OPEN_MAX_ATTEMPTS
RetryAfter(attempt) == attempt < SERVICE_OPEN_MAX_ATTEMPTS

\* handle_client, one turn of `for attempt in 1..=SERVICE_OPEN_MAX_ATTEMPTS`:
\* driver.open_device(Vsock), then `opened` and spawn_tunnel, or `starting`
\* before the sleep, or after the last attempt the service_unavailable error.
SshOpen(c) ==
    /\ conn[c].pc = "ssh_open"
    /\ \E out \in OpenDeviceOutcomes, ok \in BOOLEAN :
        LET attempt == conn[c].attempt IN
        /\ devOpens' = Append(devOpens, [c |-> c, at |-> clock, out |-> out])
        /\ conn' =
            IF out = "vsock"
            THEN [WriteFrame(c, conn[c].req.id, OpenedFrame, ok, "tunnel") EXCEPT
                    ![c].result = IF ok THEN "opened" ELSE "io"]
            ELSE IF RetryAfter(attempt)
            THEN IF out = "err"
                 THEN WriteFrame(c, conn[c].req.id, StartingFrame(attempt), ok, "ssh_sleep")
                 ELSE [conn EXCEPT ![c].attempt = attempt + 1]
            ELSE [WriteFrame(c, conn[c].req.id, ErrorFrame("service_unavailable"), ok, "closed") EXCEPT
                    ![c].result = IF ok THEN "unavailable" ELSE "io"]
    /\ UNCHANGED <<clock, notSvcVars>>

\* handle_client: thread::sleep(SERVICE_OPEN_RETRY_DELAY_SECS), next attempt
SshSleep(c) ==
    /\ conn[c].pc = "ssh_sleep"
    /\ clock' = clock + SERVICE_OPEN_RETRY_DELAY_SECS
    /\ conn' = [conn EXCEPT ![c].pc = "ssh_open", ![c].attempt = @ + 1]
    /\ UNCHANGED <<devOpens, notSvcVars>>

\* The thread of spawn_serial_tunnel runs proxy_serial_stream with the
\* access the request asked for.
SerialTunnel(c) ==
    /\ conn[c].pc = "serial"
    /\ ProxyAttach(c, ParseSerialOpenOptions(conn[c].req.options))

\* No connection has been accepted.
SvcIdle ==
    /\ conn = [c \in Clients |-> NoConn]
    /\ devOpens = <<>>
    /\ clock = 0

\* ------------------------------------------------- instance directory

\* The `bentoctl start` processes racing on one instance; manager m's start
\* spawns daemon m, whose pid is m.
Managers == {1, 2}
Daemons == Managers
\* The pid a stale id.pid left by an earlier run holds.
ForeignPid == Cardinality(Daemons) + 1

Absent == [kind |-> "absent", pid |-> 0]
\* Text that does not parse as an i32 (an id.pid opened with truncate and not
\* yet written is the empty string).
Garbage == [kind |-> "garbage", pid |-> 0]
PidText(p) == [kind |-> "pid", pid |-> p]

\* The process of daemon d exists.
DaemonAlive(d) == dmn[d].pc \notin {"none", "exited", "killed"}

\* libc::kill(pid, 0): "ok" (rc 0), "eperm" or "esrch".
Probe(p) ==
    IF p \in Daemons
    THEN (IF DaemonAlive(p) THEN "ok" ELSE "esrch")
    ELSE (IF foreign = "alive" THEN "ok"
          ELSE IF foreign = "eperm" THEN "eperm" ELSE "esrch")

\* read_pid_file: what the probe's answer means: "alive" is Ok(Some(pid)),
\* "stale" removes the file and is Ok(None).
ProbeVerdictMutantEperm(rc) == IF rc = "ok" THEN "alive" ELSE "stale"
ProbeVerdict(rc) ==
    IF rc = "ok" THEN "alive"
    ELSE IF rc = "esrch" THEN "stale"
    ELSE "alive"

\* Instance::status
StatusOf(daemon_pid) == IF daemon_pid # None THEN "Running" ELSE "Stopped"

\* A write of one line through a descriptor opened without O_APPEND whose
\* offset is `pos` lines: the line lands there, over what the file held.
WriteAt(log, pos, line) ==
    [i \in 1..(IF Len(log) > pos THEN Len(log) ELSE pos + 1) |->
        IF i = pos + 1 THEN line
        ELSE IF i <= Len(log) THEN log[i]
        ELSE [type |-> "hole", by |-> None]]

\* --------------------------------- InstanceManager: inspect, start, stop

\* The bentoctl commands that inspect the instance and then act on the
\* Instance value inspect returned.
Commands == {"start", "stop"}

\* A bentoctl command begins: manager.inspect(name), whose read_pid_file
\* does fs::read_to_string(path), the parse and NonZeroI32::new. At pc
\* "start" inspect has returned and the command's own call comes next.
MgrReadPid(m) ==
    /\ mgr[m].pc = "idle"
    /\ \E cmd \in Commands :
        mgr' = [mgr EXCEPT ![m] =
          IF pidFile.kind = "absent"
          THEN [@ EXCEPT !.pc = "start", !.read = "absent", !.cmd = cmd,
                         !.status = StatusOf(None)]
          ELSE IF pidFile.kind = "garbage" \/ pidFile.pid = 0
          THEN [@ EXCEPT !.pc = "failed", !.read = "invalid", !.cmd = cmd,
                         !.status = "Error", !.result = "invalid_pid"]
          ELSE [@ EXCEPT !.pc = "probe", !.read = "pid", !.cmd = cmd,
                         !.pid = pidFile.pid]]
    /\ UNCHANGED <<pidFile, sockFile, stdoutLog, stderrLog, foreign, netValid, dmn, notLifeVars>>

\* read_pid_file: libc::kill(pid, 0) and the match on its errno.
MgrProbe(m) ==
    /\ mgr[m].pc = "probe"
    /\ LET rc == Probe(mgr[m].pid) IN
       mgr' = [mgr EXCEPT ![m] =
          IF ProbeVerdict(rc) = "alive"
          THEN [@ EXCEPT !.pc = "start", !.probe = rc, !.daemon_pid = mgr[m].pid,
                         !.status = StatusOf(mgr[m].pid)]
          ELSE [@ EXCEPT !.pc = "remove", !.probe = rc]]
    /\ UNCHANGED <<pidFile, sockFile, stdoutLog, stderrLog, foreign, netValid, dmn, notLifeVars>>

\* read_pid_file: fs::remove_file(path) of the stale file, then Ok(None).
MgrRemoveStale(m) ==
    /\ mgr[m].pc = "remove"
    /\ pidFile' = Absent
    /\ mgr' = [mgr EXCEPT ![m].pc = "start", ![m].status = StatusOf(None)]
    /\ UNCHANGED <<sockFile, stdoutLog, stderrLog, foreign, netValid, dmn, notLifeVars>>

\* InstanceManager::start: the two tests that come before any effect, in
\* program order: "invalid_network", "already_running", or "go".
StartPrecheckMutantNoStatusTest(net_ok, status) ==
    IF ~net_ok THEN "invalid_network" ELSE "go"
StartPrecheck(net_ok, status) ==
    IF ~net_ok THEN "invalid_network"
    ELSE IF status = "Running" THEN "already_running"
    ELSE "go"

\* InstanceManager::start up to the spawn: validate_network_mode, the status
\* test, the truncating open of the stdout log, then of the stderr log, and
\* the spawn of the daemon; each of the last three can fail with an I/O
\* error, after what came before it has happened.
MgrSpawn(m) ==
    /\ mgr[m].pc = "start"
    /\ mgr[m].cmd = "start"
    /\ LET pre == StartPrecheck(netValid, mgr[m].status) IN
       IF pre # "go"
       THEN /\ mgr' = [mgr EXCEPT ![m].pc = "failed", ![m].result = pre]
            /\ UNCHANGED <<stdoutLog, stderrLog, dmn>>
       ELSE \/ /\ stdoutLog' = <<>>
               /\ stderrLog' = <<>>
               /\ dmn' = [dmn EXCEPT ![m].pc = "inspect"]
               /\ mgr' = [mgr EXCEPT ![m].pc = "wait_pid"]
            \/ /\ mgr' = [mgr EXCEPT ![m].pc = "failed", ![m].result = "io"]
               /\ \/ UNCHANGED <<stdoutLog, stderrLog>>
                  \/ stdoutLog' = <<>> /\ UNCHANGED stderrLog
                  \/ stdoutLog' = <<>> /\ stderrLog' = <<>>
               /\ UNCHANGED dmn
    /\ UNCHANGED <<pidFile, sockFile, foreign, netValid, notLifeVars>>

\* wait_for_instanced_start: one poll of fs::metadata(id.pid); the 5 s
\* deadline is tested only after a poll that found no file.
MgrWaitPid(m) ==
    /\ mgr[m].pc = "wait_pid"
    /\ IF pidFile.kind # "absent"
       THEN mgr' = [mgr EXCEPT ![m].pc = "watch"]
       ELSE mgr' = [mgr EXCEPT ![m].pc = "failed", ![m].result = "pid_timeout"]
    /\ UNCHANGED <<pidFile, sockFile, stdoutLog, stderrLog, foreign, netValid, dmn, notLifeVars>>

\* InstanceManager::start: what a stdout line does to the wait loop.
ClassifyMutantAny(line) == "running"
Classify(line) ==
    IF line.type = "Running" THEN "running"
    ELSE IF line.type = "Exiting" THEN "exiting"
    ELSE "ignored"

\* InstanceManager::start: one watcher.recv(): the next stdout line, the
\* watcher's 10 min timeout, or an I/O error of the watcher.
MgrWatch(m) ==
    /\ mgr[m].pc = "watch"
    /\ \/ /\ Len(stdoutLog) > mgr[m].off
          /\ LET line == stdoutLog[mgr[m].off + 1] IN
             mgr' = [mgr EXCEPT ![m] =
                IF Classify(line) = "running"
                THEN [@ EXCEPT !.pc = "done", !.result = "ok", !.sawBy = line.by,
                               !.off = @ + 1]
                ELSE IF Classify(line) = "exiting"
                THEN [@ EXCEPT !.pc = "failed", !.result = "exited", !.off = @ + 1]
                ELSE [@ EXCEPT !.off = @ + 1]]
       \/ mgr' = [mgr EXCEPT ![m].pc = "failed", ![m].result = "running_timeout"]
       \/ mgr' = [mgr EXCEPT ![m].pc = "failed", ![m].result = "io"]
    /\ UNCHANGED <<pidFile, sockFile, stdoutLog, stderrLog, foreign, netValid, dmn, notLifeVars>>

\* SIGINT or SIGTERM reaches daemon d: the registered handler sets the flag;
\* before flag::register the default action ends the process at once.
Delivered(d) ==
    IF dmn[d].handlers
    THEN [dmn EXCEPT ![d].flag = TRUE]
    ELSE [dmn EXCEPT ![d].pc = "killed"]

\* InstanceManager::stop: the PID the Instance value carries, if any.
StopTargetMutantFromFile(inst_pid, file) ==
    IF file.kind = "pid" THEN file.pid ELSE inst_pid
StopTarget(inst_pid, file) == inst_pid

\* InstanceManager::stop: InstanceNotRunning without a PID; else one
\* signal::kill(pid, SIGINT), whose error (ESRCH, EPERM) is returned, and
\* Ok(()) right after it. `sent` lists the kill calls of this command.
MgrStop(m) ==
    /\ mgr[m].pc = "start"
    /\ mgr[m].cmd = "stop"
    /\ LET pid == StopTarget(mgr[m].daemon_pid, pidFile) IN
       IF pid = None
       THEN /\ mgr' = [mgr EXCEPT ![m].pc = "failed", ![m].result = "not_running"]
            /\ UNCHANGED dmn
       ELSE /\ mgr' = [mgr EXCEPT ![m].pc = IF Probe(pid) = "ok" THEN "done" ELSE "failed",
                                  ![m].result = IF Probe(pid) = "ok" THEN "signalled"
                                                ELSE "kill_failed",
                                  ![m].sent = Append(@, pid)]
            /\ dmn' = IF pid \in Daemons /\ DaemonAlive(pid) THEN Delivered(pid) ELSE dmn
    /\ UNCHANGED <<pidFile, sockFile, stdoutLog, stderrLog, foreign, netValid, notLifeVars>>

\* ------------------------------------------------- InstanceDaemon::run

\* The steps of run() in program order; each names the step that follows
\* its success.
RunStepAfterMutantEarlyEvent(step) ==
    CASE step = "inspect" -> "pid_open"
      [] step = "pid_open" -> "pid_write"
      [] step = "pid_write" -> "sock_remove"
      [] step = "sock_remove" -> "sock_bind"
      [] step = "sock_bind" -> "emit"
      [] step = "emit" -> "driver"
      [] step = "driver" -> "serial"
      [] step = "serial" -> "register"
      [] step = "register" -> "loop"
      [] step = "loop" -> "driver_stop"
RunStepAfter(step) ==
    CASE step = "inspect" -> "pid_open"
      [] step = "pid_open" -> "pid_write"
      [] step = "pid_write" -> "sock_remove"
      [] step = "sock_remove" -> "sock_bind"
      [] step = "sock_bind" -> "driver"
      [] step = "driver" -> "serial"
      [] step = "serial" -> "emit"
      [] step = "emit" -> "register"
      [] step = "register" -> "loop"
      [] step = "loop" -> "driver_stop"

\* Leaving run(): the locals are dropped in reverse order of declaration, the
\* SocketGuard (if bind_socket returned one) before the PidFileGuard (if
\* write_pid_file returned one).
UnwindMutantLeak(hist) == "exited"
Unwind(hist) ==
    IF "sock" \in Range(hist) THEN "drop_sock"
    ELSE IF "pid" \in Range(hist) THEN "drop_pid"
    ELSE "exited"

\* Step `step` of daemon d succeeded and left `event` in its history.
Advance(d, step, event) ==
    [dmn EXCEPT ![d].pc = RunStepAfter(step), ![d].hist = Append(@, event)]

\* Step `step` of daemon d returned an error: `?` leaves run().
Fail(d, step) ==
    [dmn EXCEPT ![d].pc = Unwind(dmn[d].hist), ![d].fail = step]

\* run: self.manager.inspect(&self.name)?, whose read_pid_file removes a
\* stale id.pid and fails on an unparsable one.
DmnInspect(d) ==
    /\ dmn[d].pc = "inspect"
    /\ IF pidFile.kind = "garbage" \/ (pidFile.kind = "pid" /\ pidFile.pid = 0)
       THEN /\ dmn' = Fail(d, "inspect")
            /\ UNCHANGED pidFile
       ELSE /\ dmn' = [dmn EXCEPT ![d].pc = RunStepAfter("inspect")]
            /\ pidFile' = IF pidFile.kind = "pid"
                             /\ ProbeVerdict(Probe(pidFile.pid)) = "stale"
                          THEN Absent ELSE pidFile
    /\ UNCHANGED <<sockFile, stdoutLog, stderrLog, foreign, netValid, mgr, notLifeVars>>

\* write_pid_file: OpenOptions create+truncate+write .open(path)
DmnPidOpen(d) ==
    /\ dmn[d].pc = "pid_open"
    /\ \/ /\ pidFile' = Garbage
          /\ dmn' = [dmn EXCEPT ![d].pc = RunStepAfter("pid_open")]
       \/ /\ dmn' = Fail(d, "pid")
          /\ UNCHANGED pidFile
    /\ UNCHANGED <<sockFile, stdoutLog, stderrLog, foreign, netValid, mgr, notLifeVars>>

\* write_pid_file: writeln!(file, "{pid}") and the PidFileGuard
DmnPidWrite(d) ==
    /\ dmn[d].pc = "pid_write"
    /\ \/ /\ pidFile' = PidText(d)
          /\ dmn' = Advance(d, "pid_write", "pid")
       \/ /\ dmn' = Fail(d, "pid")
          /\ UNCHANGED pidFile
    /\ UNCHANGED <<sockFile, stdoutLog, stderrLog, foreign, netValid, mgr, notLifeVars>>

\* bind_socket: fs::remove_file(path), NotFound tolerated
DmnSockRemove(d) ==
    /\ dmn[d].pc = "sock_remove"
    /\ \/ /\ sockFile' = None
          /\ dmn' = [dmn EXCEPT ![d].pc = RunStepAfter("sock_remove")]
       \/ /\ dmn' = Fail(d, "sock")
          /\ UNCHANGED sockFile
    /\ UNCHANGED <<pidFile, stdoutLog, stderrLog, foreign, netValid, mgr, notLifeVars>>

\* bind_socket: UnixListener::bind(path) (fails when the path exists),
\* set_nonblocking, and the SocketGuard
DmnSockBind(d) ==
    /\ dmn[d].pc = "sock_bind"
    /\ \/ /\ sockFile = None
          /\ sockFile' = d
          /\ dmn' = Advance(d, "sock_bind", "sock")
       \/ /\ dmn' = Fail(d, "sock")
          /\ UNCHANGED sockFile
    /\ UNCHANGED <<pidFile, stdoutLog, stderrLog, foreign, netValid, mgr, notLifeVars>>

\* run: driver::get_driver_for(&inst)? and driver.start()?
DmnDriverStart(d) ==
    /\ dmn[d].pc = "driver"
    /\ \/ dmn' = Advance(d, "driver", "driver")
       \/ dmn' = Fail(d, "driver")
    /\ UNCHANGED <<pidFile, sockFile, stdoutLog, stderrLog, foreign, netValid, mgr, notLifeVars>>

\* run: create_serial_runtime; on Err, driver.stop() and return Err
DmnSerial(d) ==
    /\ dmn[d].pc = "serial"
    /\ \/ dmn' = Advance(d, "serial", "serial")
       \/ dmn' = [dmn EXCEPT ![d].pc = Unwind(dmn[d].hist), ![d].fail = "serial",
                             ![d].hist = Append(@, "stop")]
    /\ UNCHANGED <<pidFile, sockFile, stdoutLog, stderrLog, foreign, netValid, mgr, notLifeVars>>

\* run: self.emit_event(Running)?: one line written to stdout at offset 0
DmnEmit(d) ==
    /\ dmn[d].pc = "emit"
    /\ \/ /\ stdoutLog' = WriteAt(stdoutLog, 0, [type |-> "Running", by |-> d])
          /\ dmn' = Advance(d, "emit", "running")
       \/ /\ dmn' = Fail(d, "emit")
          /\ UNCHANGED stdoutLog
    /\ UNCHANGED <<pidFile, sockFile, stderrLog, foreign, netValid, mgr, notLifeVars>>

\* run: flag::register(SIGINT, ..)? and flag::register(SIGTERM, ..)?
DmnRegister(d) ==
    /\ dmn[d].pc = "register"
    /\ \/ dmn' = [Advance(d, "register", "handlers") EXCEPT ![d].handlers = TRUE]
       \/ dmn' = Fail(d, "register")
    /\ UNCHANGED <<pidFile, sockFile, stdoutLog, stderrLog, foreign, netValid, mgr, notLifeVars>>

\* run: `while !terminated.load(..)` finds the flag set (until then the loop
\* accepts connections and changes nothing here)
DmnLoopExit(d) ==
    /\ dmn[d].pc = "loop"
    /\ dmn[d].flag
    /\ dmn' = [dmn EXCEPT ![d].pc = RunStepAfter("loop"), ![d].seen = TRUE]
    /\ UNCHANGED <<pidFile, sockFile, stdoutLog, stderrLog, foreign, netValid, mgr, notLifeVars>>

\* run: driver.stop()?; Ok(()) or Err, run() returns either way
DmnDriverStop(d) ==
    /\ dmn[d].pc = "driver_stop"
    /\ \/ dmn' = [dmn EXCEPT ![d].pc = Unwind(dmn[d].hist),
                             ![d].hist = Append(@, "stop")]
       \/ dmn' = [dmn EXCEPT ![d].pc = Unwind(dmn[d].hist), ![d].fail = "stop",
                             ![d].hist = Append(@, "stop")]
    /\ UNCHANGED <<pidFile, sockFile, stdoutLog, stderrLog, foreign, netValid, mgr, notLifeVars>>

\* Drop for SocketGuard: fs::remove_file(&self.path)
DmnDropSock(d) ==
    /\ dmn[d].pc = "drop_sock"
    /\ sockFile' = None
    /\ dmn' = [dmn EXCEPT ![d].pc = IF "pid" \in Range(dmn[d].hist)
                                    THEN "drop_pid" ELSE "exited",
                          ![d].hist = Append(@, "rm_sock")]
    /\ UNCHANGED <<pidFile, stdoutLog, stderrLog, foreign, netValid, mgr, notLifeVars>>

\* Drop for PidFileGuard: fs::remove_file(&self.path)
DmnDropPid(d) ==
    /\ dmn[d].pc = "drop_pid"
    /\ pidFile' = Absent
    /\ dmn' = [dmn EXCEPT ![d].pc = "exited", ![d].hist = Append(@, "rm_pid")]
    /\ UNCHANGED <<sockFile, stdoutLog, stderrLog, foreign, netValid, mgr, notLifeVars>>

\* A signal sent by someone else than bentoctl stop (a terminal, the system).
Signal(d) ==
    /\ DaemonAlive(d)
    /\ ~dmn[d].flag
    /\ dmn' = Delivered(d)
    /\ UNCHANGED <<pidFile, sockFile, stdoutLog, stderrLog, foreign, netValid, mgr, notLifeVars>>

\* ------------------------------- InstanceManager: create, inspect, delete

\* The bentoctl create and delete processes working on one instance name.
Callers == {1, 2, 3}

\* The instance directory: not there, or a directory with what create puts
\* in it (config.yaml, the driver's machine identifier, the cidata image).
NoDir == [kind |-> "absent", config |-> FALSE, machine_id |-> FALSE, cidata |-> FALSE]
EmptyDir == [kind |-> "dir", config |-> FALSE, machine_id |-> FALSE, cidata |-> FALSE]
InstanceDirs == {[kind |-> "dir", config |-> TRUE, machine_id |-> TRUE, cidata |-> c] :
                    c \in BOOLEAN}

\* InstanceManager::inspect, in one step: the metadata of the directory, the
\* load of config.yaml, then read_pid_file (which removes a stale id.pid).
\* `pidFile` is id.pid after the call.
Inspect(d, pf) ==
    IF d.kind = "absent"
    THEN [result |-> "InstanceNotFound", daemon_pid |-> None, pidFile |-> pf]
    ELSE IF ~d.config
    THEN [result |-> "ConfigLoadFailed", daemon_pid |-> None, pidFile |-> pf]
    ELSE IF pf.kind = "absent"
    THEN [result |-> "ok", daemon_pid |-> None, pidFile |-> pf]
    ELSE IF pf.kind = "garbage" \/ pf.pid = 0
    THEN [result |-> "Io", daemon_pid |-> None, pidFile |-> pf]
    ELSE IF ProbeVerdict(Probe(pf.pid)) = "alive"
    THEN [result |-> "ok", daemon_pid |-> pf.pid, pidFile |-> pf]
    ELSE [result |-> "ok", daemon_pid |-> None, pidFile |-> Absent]

\* create: the match on inspect's result.
CreatePrecheck(result) ==
    IF result = "ok" THEN "InstanceAlreadyCreated"
    ELSE IF result = "InstanceNotFound" THEN "go"
    ELSE result

\* The steps of create whose error the caller gets after the directory was
\* made.
CreateStepErrors == {"mounts", "network", "write", "driver", "validate",
                     "driver_create", "cidata"}

Failed(k, result) == [op EXCEPT ![k].pc = "failed", ![k].result = result]

\* create: validate_name, then self.inspect(name) and the match on it.
CreateInspect(k) ==
    /\ op[k].pc = "idle"
    /\ LET i == Inspect(dir, pidFile)
           verdict == CreatePrecheck(i.result) IN
       /\ pidFile' = i.pidFile
       /\ op' = IF verdict = "go"
                THEN [op EXCEPT ![k].pc = "mkdir", ![k].cmd = "create"]
                ELSE [op EXCEPT ![k].pc = "failed", ![k].cmd = "create",
                                ![k].result = verdict, ![k].found = dir]
    /\ UNCHANGED <<dir, foreign, notRegVars>>

\* create: fs::create_dir_all(&app_home)?
CreateMkdir(k) ==
    /\ op[k].pc = "mkdir"
    /\ \/ /\ dir' = IF dir.kind = "absent" THEN EmptyDir ELSE dir
          /\ op' = [op EXCEPT ![k].pc = "options"]
       \/ /\ dir.kind = "absent"
          /\ op' = Failed(k, "mkdir")
          /\ UNCHANGED dir
    /\ UNCHANGED <<pidFile, foreign, notRegVars>>

\* create: apply_create_options(&mut config, options)? (its one error is
\* normalize_mounts's) and validate_network_mode(..)?
CreateOptions(k) ==
    /\ op[k].pc = "options"
    /\ \E out \in {"ok", "mounts", "network"} :
        op' = IF out = "ok" THEN [op EXCEPT ![k].pc = "write"] ELSE Failed(k, out)
    /\ UNCHANGED <<dir, pidFile, foreign, notRegVars>>

\* create: fs::write(&config_path, config_yaml)?
CreateWriteConfig(k) ==
    /\ op[k].pc = "write"
    /\ \/ /\ dir.kind = "dir"
          /\ dir' = [dir EXCEPT !.config = TRUE]
          /\ op' = [op EXCEPT ![k].pc = "inspect"]
       \/ /\ op' = Failed(k, "write")
          /\ UNCHANGED dir
    /\ UNCHANGED <<pidFile, foreign, notRegVars>>

\* create: let inst = self.inspect(name)?
CreateReinspect(k) ==
    /\ op[k].pc = "inspect"
    /\ LET i == Inspect(dir, pidFile) IN
       /\ pidFile' = i.pidFile
       /\ op' = IF i.result = "ok" THEN [op EXCEPT ![k].pc = "validate"]
                ELSE Failed(k, i.result)
    /\ UNCHANGED <<dir, foreign, notRegVars>>

\* create: get_driver_for(&inst)? (an error on a host without the VZ
\* driver) and driver.validate()?
CreateValidate(k) ==
    /\ op[k].pc = "validate"
    /\ \E out \in {"ok", "driver", "validate"} :
        op' = IF out = "ok" THEN [op EXCEPT ![k].pc = "driver_create"]
              ELSE Failed(k, out)
    /\ UNCHANGED <<dir, pidFile, foreign, notRegVars>>

\* create: driver.create()?, which makes the machine identifier file.
CreateDriver(k) ==
    /\ op[k].pc = "driver_create"
    /\ \/ /\ dir.kind = "dir"
          /\ dir' = [dir EXCEPT !.machine_id = TRUE]
          /\ op' = [op EXCEPT ![k].pc = "cidata"]
       \/ /\ op' = Failed(k, "driver_create")
          /\ UNCHANGED dir
    /\ UNCHANGED <<pidFile, foreign, notRegVars>>

\* create: the cidata image when the config asks for one, then Ok(inst).
CreateCidata(k) ==
    /\ op[k].pc = "cidata"
    /\ \/ /\ op' = [op EXCEPT ![k].pc = "done", ![k].result = "ok"]
          /\ UNCHANGED dir
       \/ /\ dir.kind = "dir"
          /\ dir' = [dir EXCEPT !.cidata = TRUE]
          /\ op' = [op EXCEPT ![k].pc = "done", ![k].result = "ok"]
       \/ /\ op' = Failed(k, "cidata")
          /\ UNCHANGED dir
    /\ UNCHANGED <<pidFile, foreign, notRegVars>>

\* bentoctl delete: manager.inspect(&self.name)?
DeleteInspect(k) ==
    /\ op[k].pc = "idle"
    /\ LET i == Inspect(dir, pidFile) IN
       /\ pidFile' = i.pidFile
       /\ op' = IF i.result = "ok"
                THEN [op EXCEPT ![k].pc = "delete", ![k].cmd = "delete",
                                ![k].status = StatusOf(i.daemon_pid)]
                ELSE [op EXCEPT ![k].pc = "failed", ![k].cmd = "delete",
                                ![k].result = i.result]
    /\ UNCHANGED <<dir, foreign, notRegVars>>

\* delete: the test of inst.status().
DeletePrecheckMutantNoStatusTest(status) == "go"
DeletePrecheck(status) ==
    IF status = "Running" THEN "InstanceAlreadyRunning" ELSE "go"

\* InstanceManager::delete(&inst): fs::remove_dir_all(inst.dir()), where
\* NotFound counts as done and any other error is returned.
Delete(k) ==
    /\ op[k].pc = "delete"
    /\ IF DeletePrecheck(op[k].status) # "go"
       THEN /\ op' = Failed(k, DeletePrecheck(op[k].status))
            /\ UNCHANGED <<dir, pidFile, sockFile, stdoutLog, stderrLog>>
       ELSE \/ /\ dir' = NoDir
               /\ pidFile' = Absent
               /\ sockFile' = None
               /\ stdoutLog' = <<>>
               /\ stderrLog' = <<>>
               /\ op' = [op EXCEPT ![k].pc = "done", ![k].result = "ok",
                                   ![k].found = dir]
            \/ /\ dir.kind = "dir"
               /\ op' = Failed(k, "Io")
               /\ UNCHANGED <<dir, pidFile, sockFile, stdoutLog, stderrLog>>
    /\ UNCHANGED <<foreign, netValid, mgr, dmn, hubVars, svcVars, auxVars>>

\* The process whose pid a stale id.pid names exits.
ForeignExit ==
    /\ foreign = "alive"
    /\ foreign' = "dead"
    /\ UNCHANGED <<pidFile, sockFile, stdoutLog, stderrLog, netValid, mgr, dmn,
                   notLifeVars>>

NoOp == [pc |-> "idle", cmd |-> "none", status |-> "none", result |-> "none",
         found |-> NoDir]

\* A created instance that no create or delete is working on.
RegIdle ==
    /\ dir = [kind |-> "dir", config |-> TRUE, machine_id |-> TRUE, cidata |-> TRUE]
    /\ op = [k \in Callers |-> NoOp]

\* ---------------------------------------- ControlClient::open_service

\* Response lines the client reads in one handshake.
MaxFrames == 3
\* Bytes the client relays once it holds the tunnel.
MaxRelay == 1
\* ControlClient::connect: the read and write timeouts, in seconds.
HANDSHAKE_TIMEOUT_SECS == 5

FrameTypes == {"starting", "opened", "error", "services"}
\* A response line as the client parses it: any peer may be behind the
\* socket, so any version and any body.
WireFrames == [version : Versions, type : FrameTypes]
Wires == UNION {[1..n -> WireFrames] : n \in 0..MaxFrames}

\* open_service: the version test and the match on response.body.
OnFrameMutantServicesOpens(frame) ==
    IF frame.version # CONTROL_PROTOCOL_VERSION THEN "unsupported_version"
    ELSE IF frame.type \in {"opened", "services"} THEN "opened"
    ELSE IF frame.type = "starting" THEN "continue"
    ELSE "error"
OnFrame(frame) ==
    IF frame.version # CONTROL_PROTOCOL_VERSION THEN "unsupported_version"
    ELSE IF frame.type = "opened" THEN "opened"
    ELSE IF frame.type = "starting" THEN "continue"
    ELSE IF frame.type = "error" THEN "error"
    ELSE "invalid_response"

\* ControlClient::connect has returned: both timeouts are set.
Connected == [pc |-> "connected", pos |-> 0, read_timeout |-> HANDSHAKE_TIMEOUT_SECS,
              write_timeout |-> HANDSHAKE_TIMEOUT_SECS, result |-> "none", relayed |-> 0]

\* open_service: request.write_to(&mut self.stream)
CliWriteRequest ==
    /\ cli.pc = "connected"
    /\ \/ cli' = [cli EXCEPT !.pc = "reading"]
       \/ cli' = [cli EXCEPT !.pc = "failed", !.result = "write"]
    /\ UNCHANGED <<wire, notCliVars>>

\* open_service: one turn of the loop: ControlResponse::read_from (an error
\* when the peer has closed or stays silent for the read timeout), then the
\* match. On opened both timeouts are cleared and the stream is returned.
CliRead ==
    /\ cli.pc = "reading"
    /\ IF cli.pos = Len(wire)
       THEN cli' = [cli EXCEPT !.pc = "failed", !.result = "read"]
       ELSE LET verdict == OnFrame(wire[cli.pos + 1]) IN
            cli' = IF verdict = "opened"
                   THEN [cli EXCEPT !.pos = @ + 1, !.pc = "tunnel", !.result = "ok",
                                    !.read_timeout = None, !.write_timeout = None]
                   ELSE IF verdict = "continue"
                   THEN [cli EXCEPT !.pos = @ + 1]
                   ELSE [cli EXCEPT !.pos = @ + 1, !.pc = "failed", !.result = verdict]
    /\ UNCHANGED <<wire, notCliVars>>

\* proxy_stdio(stream): a byte copied between the socket and stdio.
CliRelay ==
    /\ cli.pc = "tunnel"
    /\ cli.relayed < MaxRelay
    /\ cli' = [cli EXCEPT !.relayed = @ + 1]
    /\ UNCHANGED <<wire, notCliVars>>

\* No control client.
CliIdle ==
    /\ wire = <<>>
    /\ cli = [Connected EXCEPT !.pc = "none"]

\* ------------------------------------------------- vsock relay: proxy_streams

\* The vsock tunnels spawn_tunnel has started.
Tunnels == {1, 2}

\* One tunnel: the two peers (the client, and the guest end of the vsock
\* connection), the data each has sent that is not copied yet, the forward
\* thread and the thread that runs proxy_streams.
OpenTunnel == [client |-> "open", guest |-> "open", cdata |-> FALSE, gdata |-> FALSE,
               fwd |-> "copy", main |-> "copy", shut_wr |-> FALSE]

\* The client sends bytes.
ClientSend(t) ==
    /\ tun[t].client = "open"
    /\ ~tun[t].cdata
    /\ tun' = [tun EXCEPT ![t].cdata = TRUE]
    /\ UNCHANGED notTunVars

\* The client closes its socket.
ClientClose(t) ==
    /\ tun[t].client = "open"
    /\ tun' = [tun EXCEPT ![t].client = "closed"]
    /\ UNCHANGED notTunVars

\* The guest sends bytes.
GuestSend(t) ==
    /\ tun[t].guest = "open"
    /\ ~tun[t].gdata
    /\ tun' = [tun EXCEPT ![t].gdata = TRUE]
    /\ UNCHANGED notTunVars

\* The guest closes the vsock connection.
GuestEof(t) ==
    /\ tun[t].guest = "open"
    /\ tun' = [tun EXCEPT ![t].guest = "eof"]
    /\ UNCHANGED notTunVars

\* forward thread: io::copy(&mut client_read, &mut vsock_write): bytes are
\* read and written to the vsock (an error once the guest has closed), or
\* the read returns 0 after the client closed. Without either the read blocks.
FwdCopy(t) ==
    /\ tun[t].fwd = "copy"
    /\ IF tun[t].cdata
       THEN tun' = [tun EXCEPT ![t].cdata = FALSE,
                               ![t].fwd = IF tun[t].guest = "open" THEN "copy" ELSE "flush"]
       ELSE /\ tun[t].client = "closed"
            /\ tun' = [tun EXCEPT ![t].fwd = "flush"]
    /\ UNCHANGED notTunVars

\* forward thread: vsock_write.flush(), then the thread ends and drops
\* client_read and vsock_write.
FwdFlush(t) ==
    /\ tun[t].fwd = "flush"
    /\ tun' = [tun EXCEPT ![t].fwd = "done"]
    /\ UNCHANGED notTunVars

\* proxy_streams: io::copy(&mut vsock_stream, &mut client_stream)?: bytes
\* are read and written to the client (an error once the client has closed,
\* which `?` returns without joining the forward thread), or the read
\* returns 0 after the guest closed. Without either the read blocks.
MainCopy(t) ==
    /\ tun[t].main = "copy"
    /\ IF tun[t].gdata
       THEN tun' = [tun EXCEPT ![t].gdata = FALSE,
                               ![t].main = IF tun[t].client = "open" THEN "copy" ELSE "failed"]
       ELSE /\ tun[t].guest = "eof"
            /\ tun' = [tun EXCEPT ![t].main = "shutdown"]
    /\ UNCHANGED notTunVars

\* proxy_streams: client_stream.shutdown(Shutdown::Write)
MainShutdown(t) ==
    /\ tun[t].main = "shutdown"
    /\ tun' = [tun EXCEPT ![t].main = "join", ![t].shut_wr = TRUE]
    /\ UNCHANGED notTunVars

\* proxy_streams: forward.join(), then the return drops client_stream and
\* vsock_stream.
MainJoin(t) ==
    /\ tun[t].main = "join"
    /\ tun[t].fwd = "done"
    /\ tun' = [tun EXCEPT ![t].main = "done"]
    /\ UNCHANGED notTunVars

\* A step of the relay's own threads.
RelayStep(t) ==
    FwdCopy(t) \/ FwdFlush(t) \/ MainCopy(t) \/ MainShutdown(t) \/ MainJoin(t)

\* No tunnel was started.
TunIdle ==
    tun = [t \in Tunnels |-> [OpenTunnel EXCEPT !.fwd = "done", !.main = "done",
                                                !.client = "closed", !.guest = "eof"]]

\* ------------------------------------------------------- read_json_line

\* instance_control.rs: MAX_CONTROL_LINE_BYTES = 16 * 1024
MAX_CONTROL_LINE_BYTES == 16384
\* How far past the limit the longest line goes.
MaxOver == 2

\* A request line as the client sends it: the number of bytes before its
\* newline (or before the client closes), and whether they are UTF-8.
LineLengths == {0, 1, MAX_CONTROL_LINE_BYTES - 1, MAX_CONTROL_LINE_BYTES,
                MAX_CONTROL_LINE_BYTES + 1, MAX_CONTROL_LINE_BYTES + MaxOver}
Lines == [len : LineLengths, utf8 : BOOLEAN]

\* The connection whose request line is read.
LineConn == 1

\* read_json_line: the test made after each push.
TooLongMutantOffByOne(n) == n >= MAX_CONTROL_LINE_BYTES
TooLong(n) == n > MAX_CONTROL_LINE_BYTES

\* read_json_line: one turn of the loop. The read returns the newline or 0
\* once the line's bytes are through, and the loop is left for
\* String::from_utf8; any other byte is pushed and the length is tested.
ReadByte ==
    /\ rd.pc = "loop"
    /\ IF rd.n = reqLine.len
       THEN rd' = [rd EXCEPT !.pc = "done",
                             !.result = IF reqLine.utf8 THEN "ok" ELSE "InvalidData"]
       ELSE IF TooLong(rd.n + 1)
       THEN rd' = [rd EXCEPT !.n = @ + 1, !.pc = "done", !.result = "InvalidData"]
       ELSE rd' = [rd EXCEPT !.n = @ + 1]
    /\ UNCHANGED <<reqLine, notLineVars>>

\* handle_client: ControlRequest::read_from(&mut stream)? has its line or
\* its error, and the rest of handle_client follows.
LineHandle ==
    /\ rd.pc = "done"
    /\ Dispatch(LineConn, rd.result = "ok")

\* No request line is being read.
LineIdle ==
    /\ reqLine = [len |-> 0, utf8 |-> TRUE]
    /\ rd = [pc |-> "none", n |-> 0, result |-> "none"]

\* ---------------------------------------------------- Instance::root_disk

\* The longest `disks` list of an InstanceConfig.
MaxDisks == 3

\* Paths are lists of components; an absolute path starts with "/".
InstanceDir == <<"/", "vm1">>
DiskPaths == {<<"root.img">>, <<"/", "disks", "root.img">>}
is_absolute(path) == path # <<>> /\ path[1] = "/"

\* DiskConfig {path, role: Option<DiskRole>, read_only: Option<bool>}
DiskConfigs == [path : DiskPaths,
                role : {"unset", "root", "data"},
                read_only : {"unset", "true", "false"}]
DiskLists == UNION {[1..n -> DiskConfigs] : n \in 0..MaxDisks}

\* What is at <dir>/rootfs.img: nothing, a regular file, or a directory.
RootfsStates == {"missing", "file", "dir"}
Instances == [disks : DiskLists, rootfs : RootfsStates]

\* An Option is a list of no or one value.
OkDisk(opt) == [tag |-> "Ok", disk |-> opt]
MultipleRootDisks(count) == [tag |-> "MultipleRootDisks", count |-> count]

\* Instance::file(InstanceFile::RootDisk)
DefaultRoot == InstanceDir \o <<"rootfs.img">>

\* Instance::resolve_config_path
resolve_config_path(path) ==
    IF is_absolute(path) THEN path ELSE InstanceDir \o path

\* Instance::resolve_config_disk: read_only.unwrap_or(false)
resolve_config_disk(disk) ==
    [path |-> resolve_config_path(disk.path),
     read_only |-> disk.read_only = "true"]

\* Instance::partition_disks: the loop over config.disks, from entry i on.
\* disk.role.unwrap_or(DiskRole::Root): an entry with no role is a root disk.
RECURSIVE PartitionLoop(_, _, _)
PartitionLoop(disks, i, acc) ==
    IF i > Len(disks) THEN acc
    ELSE IF disks[i].role = "data"
    THEN PartitionLoop(disks, i + 1,
                       [acc EXCEPT !.data_disks = Append(@, disks[i])])
    ELSE PartitionLoop(disks, i + 1,
                       [acc EXCEPT !.root_count = @ + 1,
                                   !.root_disk = IF @ = <<>> THEN <<disks[i]>> ELSE @])

partition_disks(disks) ==
    LET acc == PartitionLoop(disks, 1,
                   [root_disk |-> <<>>, root_count |-> 0, data_disks |-> <<>>])
    IN  IF acc.root_count > 1
        THEN MultipleRootDisks(acc.root_count)
        ELSE [tag |-> "Ok", root |-> acc.root_disk, data |-> acc.data_disks]

\* Instance::root_disk
root_disk(i) ==
    LET parts == partition_disks(i.disks)
    IN  IF parts.tag # "Ok" THEN parts
        ELSE IF parts.root # <<>>
        THEN OkDisk(<<resolve_config_disk(parts.root[1])>>)
        ELSE IF i.disks # <<>>
        THEN OkDisk(<<>>)
        ELSE IF i.rootfs = "file"
        THEN OkDisk(<<[path |-> DefaultRoot, read_only |-> FALSE]>>)
        ELSE OkDisk(<<>>)

\* A caller (the vz driver when it builds the machine) asks for the root disk.
RootDisk ==
    /\ diskRes.pc = "call"
    /\ diskRes' = [pc |-> "done", value |-> root_disk(inst)]
    /\ UNCHANGED <<inst, notDiskVars>>

\* No root disk is being resolved.
DiskIdle ==
    /\ inst = [disks |-> <<>>, rootfs |-> "missing"]
    /\ diskRes = [pc |-> "none", value |-> [tag |-> "none"]]

\* ------------------------------------------------ ImageStore::remove_image

\* Tag names and image ids (the tests' "stable", "latest", "only").
TagNames == {"stable", "latest", "only"}
ImageIds == {"abc", "fff"}

\* RegistryIndex::empty(): tags: Vec<ImageTag>, images: Vec<ImageRecord>.
\* An ImageRecord is modelled by its id.
EmptyRegistry == [tags |-> <<>>, images |-> <<>>]

\* tags.iter().position(|tag| tag.name == tag_name): 0 stands for None.
TagPosition(tags, tag_name) ==
    IF \E k \in DOMAIN tags : tags[k].name = tag_name
    THEN CHOOSE k \in DOMAIN tags :
             /\ tags[k].name = tag_name
             /\ \A j \in 1..(k - 1) : tags[j].name # tag_name
    ELSE 0

\* images.iter().position(|img| img.id == image_id): 0 stands for None.
ImagePosition(images, image_id) ==
    IF \E k \in DOMAIN images : images[k] = image_id
    THEN CHOOSE k \in DOMAIN images :
             /\ images[k] = image_id
             /\ \A j \in 1..(k - 1) : images[j] # image_id
    ELSE 0

\* Vec::remove(idx)
VecRemove(v, idx) == SubSeq(v, 1, idx - 1) \o SubSeq(v, idx + 1, Len(v))

\* upsert_record and upsert_tag, on the registry in memory.
UpsertRecord(reg, id) ==
    IF ImagePosition(reg.images, id) # 0 THEN reg
    ELSE [reg EXCEPT !.images = Append(@, id)]
UpsertTag(reg, name, image_id) ==
    IF TagPosition(reg.tags, name) # 0
    THEN [reg EXCEPT !.tags[TagPosition(reg.tags, name)].image_id = image_id]
    ELSE [reg EXCEPT !.tags = Append(@, [name |-> name, image_id |-> image_id])]

\* The end of ImageStore::pull (and of import_from_layout): the image
\* directory is created and filled, then upsert_record and upsert_tag each
\* write the registry file; `written` counts the writes that succeed before
\* one fails and the pull returns its error.
Pull(name, id, written) ==
    /\ imageDirs' = imageDirs \cup {id}
    /\ regFile' = CASE written = 0 -> regFile
                    [] written = 1 -> UpsertRecord(regFile, id)
                    [] written = 2 -> UpsertTag(UpsertRecord(regFile, id), name, id)
    /\ rm' = [op |-> "pull", tag |-> name, result |-> "none",
              before |-> [reg |-> EmptyRegistry, dirs |-> {}]]
    /\ UNCHANGED notStoreVars

\* remove_image: tags.iter().any(|tag| tag.image_id == image_id), on the
\* tags left after the removal.
still_referencedMutantNever(tags, image_id) == FALSE
still_referenced(tags, image_id) ==
    \E k \in DOMAIN tags : tags[k].image_id = image_id

\* ImageStore::open followed by remove_image(tag_name), as `bentoctl images
\* rm` runs them: the registry is read from its file, changed in memory and
\* written back at the end. remove_dir_all and the final write may fail
\* (dir_ok, write_ok); the error is returned by `?` or map_err.
RemoveImage(tag_name, dir_ok, write_ok) ==
    LET registry == regFile
        tag_idx == TagPosition(registry.tags, tag_name)
        image_id == registry.tags[tag_idx].image_id
        tags == VecRemove(registry.tags, tag_idx)
        image_idx == ImagePosition(registry.images, image_id)
        drop == ~still_referenced(tags, image_id) /\ image_idx # 0
        images == IF drop THEN VecRemove(registry.images, image_idx)
                  ELSE registry.images
        rmdir == drop /\ image_id \in imageDirs
        done(result) == [op |-> "remove", tag |-> tag_name, result |-> result,
                         before |-> [reg |-> regFile, dirs |-> imageDirs]]
    IN  /\ IF tag_idx = 0
           THEN /\ rm' = done("TagNotFound")
                /\ UNCHANGED <<regFile, imageDirs>>
           ELSE IF rmdir /\ ~dir_ok
           THEN /\ rm' = done("Io")
                /\ UNCHANGED <<regFile, imageDirs>>
           ELSE /\ imageDirs' = IF rmdir THEN imageDirs \ {image_id} ELSE imageDirs
                /\ IF write_ok
                   THEN /\ regFile' = [tags |-> tags, images |-> images]
                        /\ rm' = done("Ok")
                   ELSE /\ rm' = done("Io")
                        /\ UNCHANGED regFile
        /\ UNCHANGED notStoreVars

\* An empty image store on which nothing was run.
StoreIdle ==
    /\ regFile = EmptyRegistry
    /\ imageDirs = {}
    /\ rm = [op |-> "none", tag |-> "none", result |-> "none",
             before |-> [reg |-> EmptyRegistry, dirs |-> {}]]

\* ----------------------------------- compress_to_file, decompress_to_file

\* The longest image, in bytes, and the most bytes one decoder.read returns
\* (the code's buffer is 1 MiB; a read may return any part of it).
MaxBytes == 4
MaxRead == 2

\* Byte values: zero and one that is not zero.
Bytes == {0, 1}
ByteStrings == UNION {[1..n -> Bytes] : n \in 0..MaxBytes}
Compressions == {"zstd", "gzip"}

\* The encoders, as far as the round trip depends on them: a frame carries
\* the format's magic, the data as runs of equal bytes, and for gzip the
\* length of the data as its trailer (ISIZE).
RECURSIVE RunLength(_, _)
RunLength(data, k) ==
    IF k < Len(data) /\ data[k + 1] = data[1] THEN RunLength(data, k + 1) ELSE k

RECURSIVE EncodeRuns(_)
EncodeRuns(data) ==
    IF data = <<>> THEN <<>>
    ELSE LET n == RunLength(data, 1)
         IN  <<[byte |-> data[1], count |-> n]>>
                 \o EncodeRuns(SubSeq(data, n + 1, Len(data)))

RECURSIVE DecodeRuns(_)
DecodeRuns(runs) ==
    IF runs = <<>> THEN <<>>
    ELSE [k \in 1..runs[1].count |-> runs[1].byte] \o DecodeRuns(Tail(runs))

\* compress_to_file: io::copy of the source into the encoder, then finish.
compress(compression, data) ==
    [magic |-> compression,
     runs |-> EncodeRuns(data),
     isize |-> IF compression = "gzip" THEN Len(data) ELSE 0]

\* What the decoder for `compression` yields from a frame before its reads
\* return 0, and whether its reads fail (a frame of the other format).
DecoderFails(compression, frame) == frame.magic # compression
Decoded(frame) == DecodeRuns(frame.runs)

\* A file: its bytes and the position of the handle. Bytes never written
\* below the end of the file read as zero.
Zeros(n) == [k \in 1..n |-> 0]
FileSeek(file, n) == [file EXCEPT !.cursor = @ + n]
FileWriteAll(file, data) ==
    LET padded == IF file.cursor > Len(file.bytes)
                  THEN file.bytes \o Zeros(file.cursor - Len(file.bytes))
                  ELSE file.bytes
        last == file.cursor + Len(data)
    IN  [bytes |-> SubSeq(padded, 1, file.cursor) \o data
                       \o SubSeq(padded, last + 1, Len(padded)),
         cursor |-> last]
FileSetLenMutantNoTruncate(file, n) == file
FileSetLen(file, n) ==
    [file EXCEPT !.bytes = IF n <= Len(@) THEN SubSeq(@, 1, n)
                           ELSE @ \o Zeros(n - Len(@))]

\* buf[..n].iter().all(|byte| *byte == 0)
AllZero(chunk) == \A k \in DOMAIN chunk : chunk[k] = 0

\* decompress_to_file: File::open(source), File::create(destination), which
\* empties a file that is there, and the decoder is set up.
DzOpen ==
    /\ dz.pc = "open"
    /\ outFile' = [bytes |-> <<>>, cursor |-> 0]
    /\ dz' = [dz EXCEPT !.pc = "loop"]
    /\ UNCHANGED <<blob, notDzVars>>

\* One turn of the loop: decoder.read returns the next n bytes (0 at the
\* end of the stream, an error for a stream it cannot decode); a chunk of
\* zeros is skipped by seek, any other is written; total_len grows by n.
DzRead(n) ==
    /\ dz.pc = "loop"
    /\ LET rest == Len(Decoded(blob.frame)) - dz.pos
           chunk == SubSeq(Decoded(blob.frame), dz.pos + 1, dz.pos + n)
       IN  IF DecoderFails(dz.compression, blob.frame)
           THEN /\ n = 0
                /\ dz' = [dz EXCEPT !.pc = "done", !.result = "Io"]
                /\ UNCHANGED outFile
           ELSE IF rest = 0
           THEN /\ n = 0
                /\ dz' = [dz EXCEPT !.pc = "set_len"]
                /\ UNCHANGED outFile
           ELSE /\ n \in 1..rest
                /\ outFile' = IF AllZero(chunk) THEN FileSeek(outFile, n)
                              ELSE FileWriteAll(outFile, chunk)
                /\ dz' = [dz EXCEPT !.pos = @ + n, !.total_len = @ + n,
                                    !.seeks = IF AllZero(chunk) THEN @ + 1 ELSE @,
                                    !.last = IF AllZero(chunk) THEN "seek" ELSE "write"]
    /\ UNCHANGED <<blob, notDzVars>>

\* output.set_len(total_len), output.flush(), Ok(())
DzFinish ==
    /\ dz.pc = "set_len"
    /\ outFile' = FileSetLen(outFile, dz.total_len)
    /\ dz' = [dz EXCEPT !.pc = "done", !.result = "Ok"]
    /\ UNCHANGED <<blob, notDzVars>>

\* Nothing is being decompressed.
DzIdle ==
    /\ blob = [data |-> <<>>, frame |-> compress("zstd", <<>>)]
    /\ outFile = [bytes |-> <<>>, cursor |-> 0]
    /\ dz = [pc |-> "none", compression |-> "zstd", pos |-> 0, total_len |-> 0,
             seeks |-> 0, last |-> "none", result |-> "none"]

\* -------------------------------------- InstanceDaemon::run: accept loop

\* The daemon whose accept loop is followed.
ShutDaemon == 1

\* bind_socket sets the listener nonblocking, and the stream accept returns
\* has the listener's mode on the hosts the VZ driver exists for (the relays
\* call set_nonblocking(false) on it before they use it): a read that finds
\* no byte returns WouldBlock.
AcceptedStreamModeMutantBlocking == "blocking"
AcceptedStreamMode == "nonblocking"

\* handle_client has not returned to the accept loop for connection c.
HandlerBusy(c) == InHandler(c) \/ conn[c].pc = "reading"

\* The loop accepts connection c, whose client has sent nothing:
\* ControlRequest::read_from fails and handle_client returns the error.
AcceptSilent(c) ==
    /\ dmn[ShutDaemon].pc = "loop"
    /\ conn[c].pc = "none"
    /\ \A o \in Clients : ~HandlerBusy(o)
    /\ conn' = IF AcceptedStreamMode = "nonblocking"
               THEN [conn EXCEPT ![c].pc = "closed", ![c].result = "would_block"]
               ELSE [conn EXCEPT ![c].pc = "reading"]
    /\ UNCHANGED <<devOpens, clock, notSvcVars>>

\* The loop accepts connection c, whose request line is there, and calls
\* handle_client.
Accept(c) ==
    /\ dmn[ShutDaemon].pc = "loop"
    /\ \A o \in Clients : ~HandlerBusy(o)
    /\ HandleClient(c)

\* `while !terminated.load(..)`: tested when handle_client has returned.
LoopExit ==
    /\ \A c \in Clients : ~HandlerBusy(c)
    /\ DmnLoopExit(ShutDaemon)

\* ------------------------------------- proxy_serial_stream and its client

\* What a client can have done with its end of the stream: nothing, a
\* shutdown of its write side, or a close.
PeerStates == {"open", "half", "closed"}

PeerIdle == peer = [c \in Clients |-> "open"]

\* The client half-closes or closes its end.
PeerClose(c, how) ==
    /\ client[c].mainPc # "idle"
    /\ peer[c] = "open"
    /\ peer' = [peer EXCEPT ![c] = how]
    /\ UNCHANGED notPeerVars

\* client_stream.read returns bytes the client sent.
PeerSend(c) ==
    /\ peer[c] = "open"
    /\ InRead(c, MaxInput, PlainChunks)
    /\ client'[c].inPc = "check"

\* client_stream.read on a stream whose far end is gone returns 0 or an
\* error at once.
PeerGoneRead(c) ==
    /\ peer[c] # "open"
    /\ InRead(c, MaxInput, PlainChunks)
    /\ client'[c].inPc \in {"ok", "err"}

\* ---------------------------- VirtualMachine::subscribe_state (vm.rs)

\* State changes the observer reports.
MaxPublish == 2

Subscribers == {1, 2}
VmStates == {"Starting", "Running", "Stopped"}

\* bounded(1)
StateChannelCapacity == 1

NoSub == [pc |-> "none", snapshot |-> "Starting", got |-> <<>>]
ObsIdle == [pc |-> "idle", state |-> "Starting", idx |-> 0, n |-> 0]

VmIdle ==
    /\ current_state = "Starting"
    /\ state_subscribers = <<>>
    /\ vchan = [s \in Subscribers |-> <<>>]
    /\ sub = [s \in Subscribers |-> NoSub]
    /\ obs = ObsIdle

\* tx.try_send(state): Ok, or Full. Every subscriber's sender and receiver
\* are also held in state_subscribers, so no end is ever disconnected.
StateTrySendOk(ch) == Len(ch) < StateChannelCapacity
StateTrySend(ch, state) == IF StateTrySendOk(ch) THEN Append(ch, state) ELSE ch

\* rx.try_recv(): takes the value the channel holds, if any.
StateTryRecv(ch) == IF ch = <<>> THEN ch ELSE Tail(ch)

\* The three channel operations of try_send_latest, one step each; `pc` is
\* the position of the caller, and the result is its next position.
AfterSend1(ch) == IF StateTrySendOk(ch) THEN "sent" ELSE "recv"

\* subscribe_state: bounded(1) and the snapshot of current_state.
SubSnapshot(s) ==
    /\ sub[s].pc = "none"
    /\ sub' = [sub EXCEPT ![s].pc = "push", ![s].snapshot = current_state]
    /\ UNCHANGED <<current_state, state_subscribers, vchan, obs, notVmVars>>

\* subscribers.push((tx.clone(), rx.clone())) under the subscribers lock,
\* which the observer holds during its retain.
SubPush(s) ==
    /\ sub[s].pc = "push"
    /\ obs.pc \in {"idle", "lock"}
    /\ state_subscribers' = Append(state_subscribers, s)
    /\ sub' = [sub EXCEPT ![s].pc = "send1"]
    /\ UNCHANGED <<current_state, vchan, obs, notVmVars>>

\* try_send_latest(&tx, &rx, snapshot), with no lock held.
SubSend1(s) ==
    /\ sub[s].pc = "send1"
    /\ vchan' = [vchan EXCEPT ![s] = StateTrySend(@, sub[s].snapshot)]
    /\ sub' = [sub EXCEPT ![s].pc = IF AfterSend1(vchan[s]) = "sent" THEN "done" ELSE "recv"]
    /\ UNCHANGED <<current_state, state_subscribers, obs, notVmVars>>

SubRecv(s) ==
    /\ sub[s].pc = "recv"
    /\ vchan' = [vchan EXCEPT ![s] = StateTryRecv(@)]
    /\ sub' = [sub EXCEPT ![s].pc = "send2"]
    /\ UNCHANGED <<current_state, state_subscribers, obs, notVmVars>>

SubSend2(s) ==
    /\ sub[s].pc = "send2"
    /\ vchan' = [vchan EXCEPT ![s] = StateTrySend(@, sub[s].snapshot)]
    /\ sub' = [sub EXCEPT ![s].pc = "done"]
    /\ UNCHANGED <<current_state, state_subscribers, obs, notVmVars>>

\* The caller of subscribe_state receives from rx.
Receive(s) ==
    /\ sub[s].pc = "done"
    /\ vchan[s] # <<>>
    /\ sub' = [sub EXCEPT ![s].got = <<Head(vchan[s])>>]
    /\ vchan' = [vchan EXCEPT ![s] = Tail(@)]
    /\ UNCHANGED <<current_state, state_subscribers, obs, notVmVars>>

\* The observer callback: *current = state_msg.
ObsStore(state) ==
    /\ obs.pc = "idle"
    /\ obs.n < MaxPublish
    /\ state # current_state
    /\ current_state' = state
    /\ obs' = [obs EXCEPT !.pc = "lock", !.state = state, !.n = @ + 1]
    /\ UNCHANGED <<state_subscribers, vchan, sub, notVmVars>>

\* The position of the retain after it has finished subscriber number idx.
RetainAt(idx) ==
    IF idx > Len(state_subscribers) THEN [obs EXCEPT !.pc = "idle", !.idx = 0]
    ELSE [obs EXCEPT !.pc = "send1", !.idx = idx]

\* observer_subscribers.lock() and the start of subscribers.retain.
ObsLock ==
    /\ obs.pc = "lock"
    /\ obs' = RetainAt(1)
    /\ UNCHANGED <<current_state, state_subscribers, vchan, sub, notVmVars>>

\* try_send_latest(tx, rx, state_msg) for one subscriber of the retain.
ObsSend1 ==
    /\ obs.pc = "send1"
    /\ LET s == state_subscribers[obs.idx] IN
       /\ vchan' = [vchan EXCEPT ![s] = StateTrySend(@, obs.state)]
       /\ obs' = IF AfterSend1(vchan[s]) = "sent" THEN RetainAt(obs.idx + 1)
                 ELSE [obs EXCEPT !.pc = "recv"]
    /\ UNCHANGED <<current_state, state_subscribers, sub, notVmVars>>

ObsRecv ==
    /\ obs.pc = "recv"
    /\ vchan' = [vchan EXCEPT ![state_subscribers[obs.idx]] = StateTryRecv(@)]
    /\ obs' = [obs EXCEPT !.pc = "send2"]
    /\ UNCHANGED <<current_state, state_subscribers, sub, notVmVars>>

ObsSend2 ==
    /\ obs.pc = "send2"
    /\ vchan' = [vchan EXCEPT ![state_subscribers[obs.idx]] = StateTrySend(@, obs.state)]
    /\ obs' = RetainAt(obs.idx + 1)
    /\ UNCHANGED <<current_state, state_subscribers, sub, notVmVars>>

\* --------------------------------- write_cidata_iso (cidata_iso9660.rs)

\* Files with a long name at the head of the list, and files after them.
MaxLongNames == 8
MaxTail == 2

SECTOR_SIZE == 2048
SYSTEM_AREA_SECTORS == 16

\* Lengths of names, in bytes: "user-data", and the longest name whose
\* directory record still fits the one-byte length.
NameLens == {9, 219}
LongName == CHOOSE n \in NameLens : \A m \in NameLens : m <= n
ContentLens == {0, 1, SECTOR_SIZE, SECTOR_SIZE + 1}
CidataEntries == [name_len : NameLens, len : ContentLens]

NoIso == [pc |-> "none", root_dir_lba |-> 0, root_dir_sectors |-> 0, file_lbas |-> <<>>,
          records |-> <<>>, root_dir_len |-> 0, writes |-> <<>>, volume_space_size |-> 0]

IsoIdle == entries = <<>> /\ iso = NoIso

div_ceilMutantFloor(value, divisor) == value \div divisor
div_ceil(value, divisor) ==
    IF value = 0 THEN 0 ELSE 1 + ((value - 1) \div divisor)

\* to_iso_file_id maps every byte of the name to one byte and appends ";1".
to_iso_file_id(name_len) == name_len + 2

\* build_directory_record, without the date: the fields and the length.
build_directory_record(extent_lba, data_len, is_dir, id_len) ==
    [extent_lba |-> extent_lba, data_len |-> data_len, is_dir |-> is_dir,
     record_len |-> 33 + id_len + (IF id_len % 2 = 0 THEN 1 ELSE 0)]

\* The loop of pack_records_to_sectors: a record that does not fit what
\* remains of the sector starts at the next one.
RECURSIVE PackLoop(_, _, _)
PackLoop(records, i, out_len) ==
    IF i > Len(records) THEN out_len
    ELSE LET remaining == SECTOR_SIZE - (out_len % SECTOR_SIZE)
             start == IF records[i].record_len > remaining THEN out_len + remaining
                      ELSE out_len
         IN  PackLoop(records, i + 1, start + records[i].record_len)

\* The length of what pack_records_to_sectors returns.
pack_records_to_sectors(records) ==
    LET out_len == PackLoop(records, 1, 0)
    IN  out_len + ((SECTOR_SIZE - (out_len % SECTOR_SIZE)) % SECTOR_SIZE)

packed_len_for_records(records_without_dot_entries) ==
    pack_records_to_sectors(
        <<build_directory_record(0, 0, TRUE, 1), build_directory_record(0, 0, TRUE, 1)>>
        \o records_without_dot_entries)

FileRecords(es, lbas) ==
    [i \in 1..Len(es) |->
        build_directory_record(lbas[i], es[i].len, FALSE, to_iso_file_id(es[i].name_len))]

estimated_root_directory_len(es) ==
    packed_len_for_records(FileRecords(es, [i \in 1..Len(es) |-> 0]))

\* build_root_directory_bytes: its records, and the length of the bytes.
build_root_directory_bytes(self_lba, parent_lba, es, entry_lbas) ==
    LET file_records == FileRecords(es, entry_lbas)
        provisional_root_len == packed_len_for_records(file_records)
        records == <<build_directory_record(self_lba, provisional_root_len, TRUE, 1),
                     build_directory_record(parent_lba, provisional_root_len, TRUE, 1)>>
                   \o file_records
    IN  [records |-> records, len |-> pack_records_to_sectors(records)]

\* The loop that gives every file its first sector.
RECURSIVE FileLbas(_, _, _)
FileLbas(es, i, next_lba) ==
    IF i > Len(es) THEN <<>>
    ELSE <<next_lba>> \o FileLbas(es, i + 1, next_lba + div_ceil(es[i].len, SECTOR_SIZE))

\* write_at_lba: where the data goes, and how far the zero padding reaches.
write_at_lba(lba, data_len) ==
    [at |-> lba * SECTOR_SIZE, len |-> data_len,
     padded |-> data_len + ((SECTOR_SIZE - (data_len % SECTOR_SIZE)) % SECTOR_SIZE)]

\* write_cidata_iso; created is whether File::create succeeded.
WriteCidataIso(created) ==
    /\ iso.pc = "none"
    /\ LET root_dir_lba == SYSTEM_AREA_SECTORS + 4
           root_dir_sectors == div_ceil(estimated_root_directory_len(entries), SECTOR_SIZE)
           first_file_lba == root_dir_lba + root_dir_sectors
           file_lbas == FileLbas(entries, 1, first_file_lba)
           root == build_root_directory_bytes(root_dir_lba, root_dir_lba, entries, file_lbas)
           next_lba == IF entries = <<>> THEN first_file_lba
                       ELSE file_lbas[Len(entries)]
                            + div_ceil(entries[Len(entries)].len, SECTOR_SIZE)
       IN  iso' = [pc |-> IF created THEN "done" ELSE "failed",
                   root_dir_lba |-> root_dir_lba,
                   root_dir_sectors |-> root_dir_sectors,
                   file_lbas |-> file_lbas,
                   records |-> root.records,
                   root_dir_len |-> root.len,
                   writes |-> IF created
                              THEN <<write_at_lba(root_dir_lba, root.len)>>
                                   \o [i \in 1..Len(entries) |->
                                          write_at_lba(file_lbas[i], entries[i].len)]
                              ELSE <<>>,
                   volume_space_size |-> next_lba]
    /\ UNCHANGED <<entries, notIsoVars>>

\* ------------------------------------------------------ specifications

NoManager == [pc |-> "idle", cmd |-> "none", read |-> "none", pid |-> None,
              probe |-> "none", daemon_pid |-> None, status |-> "none", off |-> 0,
              result |-> "none", sawBy |-> None, sent |-> <<>>]

NoDaemon == [pc |-> "none", flag |-> FALSE, handlers |-> FALSE, seen |-> FALSE,
             hist |-> <<>>, fail |-> "none"]

\* The instance directory with no manager command and no daemon running.
LifeIdle ==
    /\ pidFile = Absent
    /\ sockFile = None
    /\ stdoutLog = <<>>
    /\ stderrLog = <<>>
    /\ foreign = "dead"
    /\ netValid = TRUE
    /\ mgr = [m \in Managers |-> NoManager]
    /\ dmn = [d \in Daemons |-> NoDaemon]

\* The serial hub of a daemon that is not running.
HubIdle ==
    /\ hub = SerialHubNew
    /\ poisoned = FALSE
    /\ chan = [id \in Ids |-> [buf |-> <<>>, rx |-> FALSE]]
    /\ attachedAt = [id \in Ids |-> 0]
    /\ readerPc = "done"
    /\ nread = 0
    /\ serial_log = <<>>
    /\ client = [c \in Clients |-> [access |-> "watch", id |-> None, mainPc |-> "idle",
                                    outPc |-> "none", inPc |-> "none", outBuf |-> None, inBuf |-> <<>>]]
    /\ delivered = [c \in Clients |-> <<>>]
    /\ guest_input = <<>>

\* The other state machines of the module at rest.
AuxIdle ==
    /\ CliIdle
    /\ TunIdle
    /\ LineIdle
    /\ DiskIdle
    /\ StoreIdle
    /\ DzIdle
    /\ PeerIdle
    /\ VmIdle
    /\ IsoIdle

\* Everything but the bentoctl shell-proxy at rest.
CliAlone ==
    /\ LifeIdle
    /\ HubIdle
    /\ SvcIdle
    /\ RegIdle
    /\ TunIdle
    /\ LineIdle
    /\ DiskIdle
    /\ StoreIdle
    /\ DzIdle
    /\ PeerIdle
    /\ VmIdle
    /\ IsoIdle

\* Everything but the vsock relay at rest.
TunAlone ==
    /\ LifeIdle
    /\ HubIdle
    /\ SvcIdle
    /\ RegIdle
    /\ CliIdle
    /\ LineIdle
    /\ DiskIdle
    /\ StoreIdle
    /\ DzIdle
    /\ PeerIdle
    /\ VmIdle
    /\ IsoIdle

\* Everything but the read_json_line (instance_control.rs) at rest.
LineAlone ==
    /\ LifeIdle
    /\ HubIdle
    /\ SvcIdle
    /\ RegIdle
    /\ CliIdle
    /\ TunIdle
    /\ DiskIdle
    /\ StoreIdle
    /\ DzIdle
    /\ PeerIdle
    /\ VmIdle
    /\ IsoIdle

\* Everything but the Instance at rest.
DiskAlone ==
    /\ LifeIdle
    /\ HubIdle
    /\ SvcIdle
    /\ RegIdle
    /\ CliIdle
    /\ TunIdle
    /\ LineIdle
    /\ StoreIdle
    /\ DzIdle
    /\ PeerIdle
    /\ VmIdle
    /\ IsoIdle

\* Everything but the ImageStore (images/store.rs) at rest.
StoreAlone ==
    /\ LifeIdle
    /\ HubIdle
    /\ SvcIdle
    /\ RegIdle
    /\ CliIdle
    /\ TunIdle
    /\ LineIdle
    /\ DiskIdle
    /\ DzIdle
    /\ PeerIdle
    /\ VmIdle
    /\ IsoIdle

\* Everything but the decompress_to_file (images/store.rs) at rest.
DzAlone ==
    /\ LifeIdle
    /\ HubIdle
    /\ SvcIdle
    /\ RegIdle
    /\ CliIdle
    /\ TunIdle
    /\ LineIdle
    /\ DiskIdle
    /\ StoreIdle
    /\ PeerIdle
    /\ VmIdle
    /\ IsoIdle

\* Everything but the serial clients at rest.
PeerAlone ==
    /\ LifeIdle
    /\ HubIdle
    /\ SvcIdle
    /\ RegIdle
    /\ CliIdle
    /\ TunIdle
    /\ LineIdle
    /\ DiskIdle
    /\ StoreIdle
    /\ DzIdle
    /\ VmIdle
    /\ IsoIdle

\* Everything but the VirtualMachine state subscriptions (driver/vz/vm.rs) at rest.
VmAlone ==
    /\ LifeIdle
    /\ HubIdle
    /\ SvcIdle
    /\ RegIdle
    /\ CliIdle
    /\ TunIdle
    /\ LineIdle
    /\ DiskIdle
    /\ StoreIdle
    /\ DzIdle
    /\ PeerIdle
    /\ IsoIdle

\* Everything but the write_cidata_iso (cidata_iso9660.rs) at rest.
IsoAlone ==
    /\ LifeIdle
    /\ HubIdle
    /\ SvcIdle
    /\ RegIdle
    /\ CliIdle
    /\ TunIdle
    /\ LineIdle
    /\ DiskIdle
    /\ StoreIdle
    /\ DzIdle
    /\ PeerIdle
    /\ VmIdle

\* A line an earlier run of the daemon left in a log.
OldLine == [type |-> "old", by |-> ForeignPid]

\* A created instance that is not running: id.pid is absent, or is what an
\* earlier run left behind (a pid whose process is gone, was replaced by a
\* process of this or of another user, or text that is no pid) together
\* with a line in its stderr log. The config's network mode is valid unless
\* config.yaml was changed after create.
Init ==
    /\ pidFile \in {Absent, Garbage, PidText(0), PidText(ForeignPid)}
    /\ foreign \in IF pidFile = PidText(ForeignPid)
                   THEN {"dead", "alive", "eperm"} ELSE {"dead"}
    /\ netValid \in IF pidFile \in {Absent, PidText(ForeignPid)}
                    THEN BOOLEAN ELSE {TRUE}
    /\ sockFile = None
    /\ stdoutLog = <<>>
    /\ stderrLog = IF pidFile = Absent THEN <<>> ELSE <<OldLine>>
    /\ mgr = [m \in Managers |-> NoManager]
    /\ dmn = [d \in Daemons |-> NoDaemon]
    /\ HubIdle
    /\ SvcIdle
    /\ RegIdle
    /\ AuxIdle

Next ==
    \/ \E m \in Managers : MgrReadPid(m)
    \/ \E m \in Managers : MgrProbe(m)
    \/ \E m \in Managers : MgrRemoveStale(m)
    \/ \E m \in Managers : MgrSpawn(m)
    \/ \E m \in Managers : MgrStop(m)
    \/ \E m \in Managers : MgrWaitPid(m)
    \/ \E m \in Managers : MgrWatch(m)
    \/ \E d \in Daemons : DmnInspect(d)
    \/ \E d \in Daemons : DmnPidOpen(d)
    \/ \E d \in Daemons : DmnPidWrite(d)
    \/ \E d \in Daemons : DmnSockRemove(d)
    \/ \E d \in Daemons : DmnSockBind(d)
    \/ \E d \in Daemons : DmnDriverStart(d)
    \/ \E d \in Daemons : DmnSerial(d)
    \/ \E d \in Daemons : DmnEmit(d)
    \/ \E d \in Daemons : DmnRegister(d)
    \/ \E d \in Daemons : DmnLoopExit(d)
    \/ \E d \in Daemons : DmnDriverStop(d)
    \/ \E d \in Daemons : DmnDropSock(d)
    \/ \E d \in Daemons : DmnDropPid(d)
    \/ \E d \in Daemons : Signal(d)

Spec == Init /\ [][Next]_vars


NoClient == [access |-> "watch", id |-> None, mainPc |-> "idle",
             outPc |-> "none", inPc |-> "none", outBuf |-> None, inBuf |-> <<>>]

\* create_serial_runtime: a new hub, the reader thread spawned, no client yet.
HubInit ==
    /\ hub = SerialHubNew
    /\ poisoned = FALSE
    /\ chan = [id \in Ids |-> [buf |-> <<>>, rx |-> FALSE]]
    /\ attachedAt = [id \in Ids |-> 0]
    /\ readerPc = "read"
    /\ nread = 0
    /\ serial_log = <<>>
    /\ client = [c \in Clients |-> NoClient]
    /\ delivered = [c \in Clients |-> <<>>]
    /\ guest_input = <<>>
    /\ LifeIdle
    /\ SvcIdle
    /\ RegIdle
    /\ AuxIdle

HubNext ==
    \/ ReaderRead(MaxChunks)
    \/ ReaderLog(BOOLEAN)
    \/ ReaderBroadcast
    \/ \E c \in Clients, a \in Access : ProxyAttach(c, a)
    \/ \E c \in Clients : OutRecv(c)
    \/ \E c \in Clients : OutWrite(c)
    \/ \E c \in Clients : InRead(c, MaxInput, PlainChunks)
    \/ \E c \in Clients : InCheck(c)
    \/ \E c \in Clients : InWrite(c)
    \/ \E c \in Clients : JoinInput(c)
    \/ \E c \in Clients : MainDetach(c)
    \/ \E c \in Clients : JoinOutput(c)

SpecHub == HubInit /\ [][HubNext]_vars

\* One chunk went by with no subscriber, then one interactive client attached
\* (a state SpecHub reaches), and the guest then emits enough chunks
\* to fill its queue; the client sends nothing before it closes or fails, and
\* writes to serial.log succeed.
SlowClient == 1

SlowInit ==
    /\ hub = Attach(SerialHubNew, "interactive")
    /\ poisoned = FALSE
    /\ chan = [id \in Ids |-> [buf |-> <<>>, rx |-> (id = SlowClient)]]
    /\ readerPc = "read"
    /\ nread = 1
    /\ attachedAt = [id \in Ids |-> IF id = SlowClient THEN 1 ELSE 0]
    /\ serial_log = <<1>>
    /\ client = [c \in Clients |->
            IF c = SlowClient
            THEN [access |-> "interactive", id |-> 1, mainPc |-> "join_input",
                  outPc |-> "recv", inPc |-> "read", outBuf |-> None, inBuf |-> <<>>]
            ELSE NoClient]
    /\ delivered = [c \in Clients |-> <<>>]
    /\ guest_input = <<>>
    /\ LifeIdle
    /\ SvcIdle
    /\ RegIdle
    /\ AuxIdle

SlowNext ==
    \/ ReaderRead(MaxSlowChunks)
    \/ ReaderLog({TRUE})
    \/ ReaderBroadcast
    \/ OutRecv(SlowClient)
    \/ OutWrite(SlowClient)
    \/ InRead(SlowClient, 0, PlainChunks)
    \/ JoinInput(SlowClient)
    \/ MainDetach(SlowClient)
    \/ JoinOutput(SlowClient)

SpecSlow == SlowInit /\ [][SlowNext]_vars

\* The control socket of a running daemon: connections are accepted one
\* after the other; serial clients get their relay threads; the guest is
\* silent and the clients send nothing before they close.
SvcInit ==
    /\ hub = SerialHubNew
    /\ poisoned = FALSE
    /\ chan = [id \in Ids |-> [buf |-> <<>>, rx |-> FALSE]]
    /\ attachedAt = [id \in Ids |-> 0]
    /\ readerPc = "read"
    /\ nread = 0
    /\ serial_log = <<>>
    /\ client = [c \in Clients |-> NoClient]
    /\ delivered = [c \in Clients |-> <<>>]
    /\ guest_input = <<>>
    /\ LifeIdle
    /\ RegIdle
    /\ AuxIdle
    /\ conn = [c \in Clients |-> NoConn]
    /\ devOpens = <<>>
    /\ clock = 0

SvcNext ==
    \/ \E c \in Clients : HandleClient(c)
    \/ \E c \in Clients : SshOpen(c)
    \/ \E c \in Clients : SshSleep(c)
    \/ \E c \in Clients : SerialTunnel(c)
    \/ \E c \in Clients : OutRecv(c)
    \/ \E c \in Clients : InRead(c, 0, PlainChunks)
    \/ \E c \in Clients : JoinInput(c)
    \/ \E c \in Clients : MainDetach(c)
    \/ \E c \in Clients : JoinOutput(c)

SpecSvc == SvcInit /\ [][SvcNext]_vars


\* The registry of one instance name: the name is free, or an instance was
\* created under it and its daemon is not running, is running (as this or
\* another user), or was killed and left its id.pid behind.
RegInit ==
    /\ dir \in {NoDir} \cup InstanceDirs
    /\ pidFile \in IF dir = NoDir THEN {Absent} ELSE {Absent, Garbage, PidText(ForeignPid)}
    /\ foreign \in IF pidFile = PidText(ForeignPid)
                   THEN {"dead", "alive", "eperm"} ELSE {"dead"}
    /\ op = [k \in Callers |-> NoOp]
    /\ sockFile = None
    /\ stdoutLog = <<>>
    /\ stderrLog = <<>>
    /\ netValid = TRUE
    /\ mgr = [m \in Managers |-> NoManager]
    /\ dmn = [d \in Daemons |-> NoDaemon]
    /\ HubIdle
    /\ SvcIdle
    /\ AuxIdle

RegNext ==
    \/ \E k \in Callers : CreateInspect(k)
    \/ \E k \in Callers : CreateMkdir(k)
    \/ \E k \in Callers : CreateOptions(k)
    \/ \E k \in Callers : CreateWriteConfig(k)
    \/ \E k \in Callers : CreateReinspect(k)
    \/ \E k \in Callers : CreateValidate(k)
    \/ \E k \in Callers : CreateDriver(k)
    \/ \E k \in Callers : CreateCidata(k)
    \/ \E k \in Callers : DeleteInspect(k)
    \/ \E k \in Callers : Delete(k)
    \/ ForeignExit

SpecReg == RegInit /\ [][RegNext]_vars

\* A control client that has connected to a control socket; the peer sends
\* some response lines and then nothing more.
CliInit ==
    /\ wire \in Wires
    /\ cli = Connected
    /\ CliAlone

CliNext ==
    \/ CliWriteRequest
    \/ CliRead
    \/ CliRelay

SpecCli == CliInit /\ [][CliNext]_vars

\* Tunnels whose relay has just started; the threads of a relay are run
\* whenever they can take a step, the peers act when they please.
TunInit ==
    /\ tun = [t \in Tunnels |-> OpenTunnel]
    /\ TunAlone

TunNext ==
    \/ \E t \in Tunnels : ClientSend(t)
    \/ \E t \in Tunnels : ClientClose(t)
    \/ \E t \in Tunnels : GuestSend(t)
    \/ \E t \in Tunnels : GuestEof(t)
    \/ \E t \in Tunnels : FwdCopy(t)
    \/ \E t \in Tunnels : FwdFlush(t)
    \/ \E t \in Tunnels : MainCopy(t)
    \/ \E t \in Tunnels : MainShutdown(t)
    \/ \E t \in Tunnels : MainJoin(t)

SpecTun == TunInit /\ [][TunNext]_vars /\ \A t \in Tunnels : WF_vars(RelayStep(t))

\* One serial client of a running daemon. The daemon's threads are run
\* whenever they can take a step; when the guest emits and when the client
\* sends or closes is up to them.
RelayClient == 1

RelayNext ==
    \/ ReaderRead(MaxChunks)
    \/ ReaderLog({TRUE})
    \/ ReaderBroadcast
    \/ \E a \in Access : ProxyAttach(RelayClient, a)
    \/ OutRecv(RelayClient)
    \/ OutWrite(RelayClient)
    \/ InRead(RelayClient, MaxInput, PlainChunks)
    \/ InCheck(RelayClient)
    \/ InWrite(RelayClient)
    \/ JoinInput(RelayClient)
    \/ MainDetach(RelayClient)
    \/ JoinOutput(RelayClient)

SpecRelay ==
    /\ HubInit
    /\ [][RelayNext]_vars
    /\ WF_vars(ReaderLog({TRUE}) \/ ReaderBroadcast)
    /\ WF_vars(OutRecv(RelayClient) \/ OutWrite(RelayClient))
    /\ WF_vars(InCheck(RelayClient) \/ InWrite(RelayClient))
    /\ WF_vars(JoinInput(RelayClient) \/ MainDetach(RelayClient) \/ JoinOutput(RelayClient))

\* One serial client that may send any bytes, the escape byte among them.
EscNext ==
    \/ ReaderRead(MaxChunks)
    \/ ReaderLog({TRUE})
    \/ ReaderBroadcast
    \/ \E a \in Access : ProxyAttach(RelayClient, a)
    \/ OutRecv(RelayClient)
    \/ OutWrite(RelayClient)
    \/ InRead(RelayClient, MaxEscInput, Chunks)
    \/ InCheck(RelayClient)
    \/ InWrite(RelayClient)
    \/ JoinInput(RelayClient)
    \/ MainDetach(RelayClient)
    \/ JoinOutput(RelayClient)

SpecEsc == HubInit /\ [][EscNext]_vars

\* SpecHub with a relay thread that may panic with the hub lock held.
PoisonNext ==
    \/ ReaderRead(MaxChunks)
    \/ ReaderLog({TRUE})
    \/ ReaderBroadcast
    \/ \E c \in Clients, a \in Access : ProxyAttach(c, a)
    \/ \E c \in Clients : OutRecv(c)
    \/ \E c \in Clients : OutWrite(c)
    \/ \E c \in Clients : InRead(c, MaxInput, PlainChunks)
    \/ \E c \in Clients : InCheck(c)
    \/ \E c \in Clients : InPanic(c)
    \/ \E c \in Clients : InWrite(c)
    \/ \E c \in Clients : JoinInput(c)
    \/ \E c \in Clients : MainDetach(c)
    \/ \E c \in Clients : JoinOutput(c)

SpecPoison == HubInit /\ [][PoisonNext]_vars

\* The accept loop has taken one connection and handle_client starts to
\* read its request line; what follows the request is as in SpecSvc.
LineInit ==
    /\ reqLine \in Lines
    /\ rd = [pc |-> "loop", n |-> 0, result |-> "none"]
    /\ LineAlone

LineNext ==
    \/ ReadByte
    \/ LineHandle
    \/ SshOpen(LineConn)
    \/ SshSleep(LineConn)
    \/ SerialTunnel(LineConn)

SpecLine == LineInit /\ [][LineNext]_vars

\* root_disk is called on an instance with any configuration of up to
\* MaxDisks disks and any state of its rootfs.img.
DiskInit ==
    /\ inst \in Instances
    /\ diskRes = [pc |-> "call", value |-> [tag |-> "none"]]
    /\ DiskAlone

DiskNext == RootDisk

SpecDisk == DiskInit /\ [][DiskNext]_vars

\* The image store of one user: images are pulled under tags and tags are
\* removed, one bentoctl process after the other.
StoreInit == StoreAlone /\ StoreIdle

StoreNext ==
    \/ \E name \in TagNames, id \in ImageIds, written \in 0..2 : Pull(name, id, written)
    \/ \E name \in TagNames, dir_ok, write_ok \in BOOLEAN :
           RemoveImage(name, dir_ok, write_ok)

SpecStore == StoreInit /\ [][StoreNext]_vars

\* A byte string was compressed with either format, and the blob is
\* decompressed as either format into a destination that does not exist or
\* holds what an earlier pull left there.
DzInit ==
    /\ \E data \in ByteStrings, c \in Compressions :
           blob = [data |-> data, frame |-> compress(c, data)]
    /\ \E old \in {<<>>, [k \in 1..(MaxBytes + 1) |-> 1]} :
           outFile = [bytes |-> old, cursor |-> 0]
    /\ \E c \in Compressions :
           dz = [pc |-> "open", compression |-> c, pos |-> 0, total_len |-> 0,
                 seeks |-> 0, last |-> "none", result |-> "none"]
    /\ DzAlone

DzNext ==
    \/ DzOpen
    \/ \E n \in 0..MaxRead : DzRead(n)
    \/ DzFinish

SpecDz == DzInit /\ [][DzNext]_vars

\* A daemon that has reached its accept loop: id.pid and id.sock are its
\* own, the driver and the serial runtime are started, the Running line is
\* written and the signal handlers are registered.
ShutInit ==
    /\ pidFile = PidText(ShutDaemon)
    /\ sockFile = ShutDaemon
    /\ stdoutLog = <<[type |-> "Running", by |-> ShutDaemon]>>
    /\ stderrLog = <<>>
    /\ foreign = "dead"
    /\ netValid = TRUE
    /\ mgr = [m \in Managers |-> NoManager]
    /\ dmn = [d \in Daemons |->
                IF d = ShutDaemon
                THEN [pc |-> "loop", flag |-> FALSE, handlers |-> TRUE, seen |-> FALSE,
                      hist |-> <<"pid", "sock", "driver", "serial", "running", "handlers">>,
                      fail |-> "none"]
                ELSE NoDaemon]
    /\ HubIdle
    /\ SvcIdle
    /\ RegIdle
    /\ AuxIdle

ShutNext ==
    \/ Signal(ShutDaemon)
    \/ \E c \in Clients : AcceptSilent(c)
    \/ \E c \in Clients : Accept(c)
    \/ \E c \in Clients : SshOpen(c)
    \/ \E c \in Clients : SshSleep(c)
    \/ \E c \in Clients : SerialTunnel(c)
    \/ LoopExit
    \/ DmnDriverStop(ShutDaemon)
    \/ DmnDropSock(ShutDaemon)
    \/ DmnDropPid(ShutDaemon)

\* The daemon's main thread keeps running: a sleep ends, an attempt is
\* made, the loop tests its flag, run() returns and its guards are dropped.
\* Nothing is assumed of the clients or of the sender of the signal.
SpecShut ==
    /\ ShutInit
    /\ [][ShutNext]_vars
    /\ \A c \in Clients : WF_vars(SshOpen(c)) /\ WF_vars(SshSleep(c))
    /\ WF_vars(LoopExit)
    /\ WF_vars(DmnDriverStop(ShutDaemon))
    /\ WF_vars(DmnDropSock(ShutDaemon))
    /\ WF_vars(DmnDropPid(ShutDaemon))

\* A bentoctl start or stop command and a bentoctl delete working on one
\* created instance at the same time. The steps of the manager and of the
\* daemon it spawns are followed for as long as the instance directory is
\* there.
RaceCaller == 1
RaceManager == 1

\* A step of manager m's command or of the daemon it spawned.
LifeStep(m) ==
    \/ MgrReadPid(m)
    \/ MgrProbe(m)
    \/ MgrRemoveStale(m)
    \/ MgrSpawn(m)
    \/ MgrStop(m)
    \/ MgrWaitPid(m)
    \/ MgrWatch(m)
    \/ DmnInspect(m)
    \/ DmnPidOpen(m)
    \/ DmnPidWrite(m)
    \/ DmnSockRemove(m)
    \/ DmnSockBind(m)
    \/ DmnDriverStart(m)
    \/ DmnSerial(m)
    \/ DmnEmit(m)
    \/ DmnRegister(m)
    \/ DmnLoopExit(m)
    \/ DmnDriverStop(m)
    \/ DmnDropSock(m)
    \/ DmnDropPid(m)
    \/ Signal(m)

RaceInit ==
    /\ pidFile \in {Absent, PidText(ForeignPid)}
    /\ foreign \in IF pidFile = PidText(ForeignPid)
                   THEN {"dead", "alive", "eperm"} ELSE {"dead"}
    /\ netValid = TRUE
    /\ sockFile = None
    /\ stdoutLog = <<>>
    /\ stderrLog = IF pidFile = Absent THEN <<>> ELSE <<OldLine>>
    /\ mgr = [m \in Managers |-> NoManager]
    /\ dmn = [d \in Daemons |-> NoDaemon]
    /\ HubIdle
    /\ SvcIdle
    /\ RegIdle
    /\ AuxIdle

RaceNext ==
    \/ dir.kind = "dir" /\ LifeStep(RaceManager)
    \/ DeleteInspect(RaceCaller)
    \/ Delete(RaceCaller)

SpecRace == RaceInit /\ [][RaceNext]_vars

\* proxy_serial_stream with the client's end of the stream as state.
OwnerInit == HubInit

OwnerNext ==
    \/ ReaderRead(MaxChunks)
    \/ ReaderLog({TRUE})
    \/ ReaderBroadcast
    \/ \E a \in Access : ProxyAttach(RelayClient, a)
    \/ OutRecv(RelayClient)
    \/ OutWrite(RelayClient)
    \/ PeerSend(RelayClient)
    \/ PeerGoneRead(RelayClient)
    \/ \E how \in {"half", "closed"} : PeerClose(RelayClient, how)
    \/ InCheck(RelayClient)
    \/ InPanic(RelayClient)
    \/ InWrite(RelayClient)
    \/ JoinInput(RelayClient)
    \/ MainDetach(RelayClient)
    \/ JoinOutput(RelayClient)

\* The reader and the three threads of the relay run whenever they can, and
\* a read of a stream whose far end is gone returns.
SpecOwner ==
    /\ OwnerInit
    /\ [][OwnerNext]_vars
    /\ WF_vars(ReaderLog({TRUE}) \/ ReaderBroadcast)
    /\ WF_vars(OutRecv(RelayClient) \/ OutWrite(RelayClient))
    /\ WF_vars(PeerGoneRead(RelayClient) \/ InCheck(RelayClient) \/ InWrite(RelayClient))
    /\ WF_vars(JoinInput(RelayClient) \/ MainDetach(RelayClient) \/ JoinOutput(RelayClient))

\* bentoctl run without --keep, from the return of the attach on:
\* cleanup_run_instance with created and started both true, beside the
\* daemon that run started.
RunDaemon == 1
RunManager == 1
RunCaller == 1

\* start returns once the daemon has written its Running event, which is
\* before or after the daemon registers its signal handlers.
RunInit ==
    /\ pidFile = PidText(RunDaemon)
    /\ sockFile = RunDaemon
    /\ stdoutLog = <<[type |-> "Running", by |-> RunDaemon]>>
    /\ stderrLog = <<>>
    /\ foreign = "dead"
    /\ netValid = TRUE
    /\ mgr = [m \in Managers |-> NoManager]
    /\ \E registered \in BOOLEAN :
          dmn = [d \in Daemons |->
                   IF d = RunDaemon
                   THEN [pc |-> IF registered THEN "loop" ELSE "register",
                         flag |-> FALSE, handlers |-> registered, seen |-> FALSE,
                         hist |-> IF registered
                                  THEN <<"pid", "sock", "driver", "serial", "running",
                                         "handlers">>
                                  ELSE <<"pid", "sock", "driver", "serial", "running">>,
                         fail |-> "none"]
                   ELSE NoDaemon]
    /\ HubIdle
    /\ SvcIdle
    /\ RegIdle
    /\ AuxIdle

\* manager.inspect(name) and, for a running instance, manager.stop(&inst).
CleanupInspect ==
    /\ op[RunCaller].pc = "idle"
    /\ MgrReadPid(RunManager)
    /\ mgr'[RunManager].cmd = "stop"

CleanupProbe == MgrProbe(RunManager)

CleanupRemoveStale == MgrRemoveStale(RunManager)

CleanupStop == mgr[RunManager].cmd = "stop" /\ MgrStop(RunManager)

\* stop returned Ok, or was skipped or answered InstanceNotRunning; any
\* other error of stop or of inspect ends cleanup_run_instance.
CleanupGoesOn ==
    \/ mgr[RunManager].pc = "done"
    \/ mgr[RunManager].pc = "failed" /\ mgr[RunManager].result = "not_running"

\* thread::sleep(200 ms), then manager.inspect(name).
CleanupInspectAgain == CleanupGoesOn /\ DeleteInspect(RunCaller)

\* manager.delete(&inst)
CleanupDelete == CleanupGoesOn /\ Delete(RunCaller)

RunNext ==
    \/ CleanupInspect
    \/ CleanupProbe
    \/ CleanupRemoveStale
    \/ CleanupStop
    \/ CleanupInspectAgain
    \/ CleanupDelete
    \/ Signal(RunDaemon)
    \/ DmnRegister(RunDaemon)
    \/ DmnLoopExit(RunDaemon)
    \/ DmnDriverStop(RunDaemon)
    \/ DmnDropSock(RunDaemon)
    \/ DmnDropPid(RunDaemon)

\* bentoctl and the daemon are two processes and each goes on running.
SpecRun ==
    /\ RunInit
    /\ [][RunNext]_vars
    /\ WF_vars(CleanupInspect)
    /\ WF_vars(CleanupProbe \/ CleanupRemoveStale \/ CleanupStop)
    /\ WF_vars(CleanupInspectAgain \/ CleanupDelete)
    /\ WF_vars(DmnRegister(RunDaemon))
    /\ WF_vars(DmnLoopExit(RunDaemon))
    /\ WF_vars(DmnDriverStop(RunDaemon))
    /\ WF_vars(DmnDropSock(RunDaemon))
    /\ WF_vars(DmnDropPid(RunDaemon))

\* Threads in subscribe_state, their receivers, and the state observer.
VmInit == VmAlone /\ VmIdle

VmNext ==
    \/ \E s \in Subscribers : SubSnapshot(s)
    \/ \E s \in Subscribers : SubPush(s)
    \/ \E s \in Subscribers : SubSend1(s)
    \/ \E s \in Subscribers : SubRecv(s)
    \/ \E s \in Subscribers : SubSend2(s)
    \/ \E s \in Subscribers : Receive(s)
    \/ \E state \in VmStates : ObsStore(state)
    \/ ObsLock
    \/ ObsSend1
    \/ ObsRecv
    \/ ObsSend2

SpecVm == VmInit /\ [][VmNext]_vars

\* write_cidata_iso on lists of files.
IsoInit ==
    /\ \E n \in 0..MaxLongNames, c \in ContentLens,
          tail \in UNION {[1..k -> CidataEntries] : k \in 0..MaxTail} :
           entries = [i \in 1..n |-> [name_len |-> LongName, len |-> c]] \o tail
    /\ iso = NoIso
    /\ IsoAlone

IsoNext == \E created \in BOOLEAN : WriteCidataIso(created)

SpecIso == IsoInit /\ [][IsoNext]_vars

\* ------------------------------------------------------------ properties

\* The subscriber of a proxy_serial_stream call is registered in the hub.
Attached(c) == client[c].id # None /\ client[c].id \in hub.subscribers

\* Registered subscribers that asked for the interactive role.
InteractiveSubscribers ==
    {c \in Clients : client[c].access = "interactive" /\ Attached(c)}

\* C3: at most one registered subscriber holds the interactive role, that
\* subscriber is the recorded interactive_owner, and a recorded owner is the
\* id of a registered subscriber.
C3_SingleInteractive ==
    /\ Cardinality(InteractiveSubscribers) <= 1
    /\ \A c \in InteractiveSubscribers : hub.interactive_owner = client[c].id
    /\ hub.interactive_owner # None => hub.interactive_owner \in hub.subscribers

\* A second subscriber owns the interactive role after the first one was
\* detached and a chunk was broadcast.
C3_Witness ==
    /\ hub.interactive_owner = 2
    /\ 1 \notin hub.subscribers
    /\ Broadcasts >= 1

\* C4: an interactive attach made while an interactive subscriber is
\* registered is refused, a refused attach leaves hub and channels as they
\* were, and a watch attach is never refused: it registers the next id.
C4_AttachRefusal ==
    [][\A c \in Clients :
        (client[c].mainPc = "idle" /\ client'[c].mainPc # "idle") =>
            /\ (client'[c].access = "interactive" /\ InteractiveSubscribers # {})
                    => client'[c].mainPc = "refused"
            /\ client'[c].mainPc = "refused"
                    => (hub' = hub /\ chan' = chan /\ client'[c].id = None)
            /\ client'[c].access = "watch"
                    => /\ client'[c].mainPc # "refused"
                       /\ client'[c].id = hub.next_id
                       /\ hub.next_id \in hub'.subscribers
                       /\ hub'.next_id = hub.next_id + 1
                       /\ hub'.interactive_owner = hub.interactive_owner]_vars

\* One client was refused while another holds the interactive role.
C4_Witness ==
    \E c \in Clients :
        /\ client[c].mainPc = "refused"
        /\ hub.interactive_owner # None

\* The output relay of subscriber c is waiting in recv() and has never taken
\* a chunk from its queue.
NothingTaken(c) ==
    client[c].outPc = "recv" /\ delivered[c] = <<>> /\ client[c].outBuf = None

\* Broadcast calls that returned since c attached.
BroadcastsSince(c) == Broadcasts - attachedAt[client[c].id]

\* C5 as stated: a subscriber that takes nothing while 64 chunks are
\* broadcast is detached.
C5_DetachedAfter64 ==
    \A c \in Clients :
        (client[c].id # None /\ NothingTaken(c) /\ BroadcastsSince(c) >= QueueCapacity)
            => ~Attached(c)

\* C5 amended: a registered subscriber never has more than 64 chunks queued;
\* a subscriber that takes nothing is detached once more than 64 chunks were
\* broadcast (by the 65th broadcast); and the reader's broadcast step is
\* enabled whatever the queues hold.
C5_SlowSubscriberDropped ==
    /\ \A c \in Clients :
            Attached(c) => Len(chan[client[c].id].buf) <= QueueCapacity
    /\ \A c \in Clients :
            (client[c].id # None /\ NothingTaken(c) /\ BroadcastsSince(c) > QueueCapacity)
                => ~Attached(c)
    /\ readerPc = "broadcast" => ENABLED ReaderBroadcast

\* The 65th broadcast found the queue full and detached the subscriber: its
\* relay threads are still running and the receiver still holds 64 chunks.
C5_Witness ==
    /\ client[SlowClient].mainPc = "join_input"
    /\ client[SlowClient].inPc = "read"
    /\ ~Attached(SlowClient)
    /\ chan[SlowClient].rx
    /\ Len(chan[SlowClient].buf) = QueueCapacity
    /\ NothingTaken(SlowClient)

\* Chunks that have been placed in the queue of subscriber c and not discarded.
Queued(c) ==
    Range(delivered[c])
        \cup (IF client[c].outBuf = None THEN {} ELSE {client[c].outBuf})
        \cup (IF client[c].id = None THEN {} ELSE Range(chan[client[c].id].buf))

\* C6: every chunk placed in a subscriber's queue is in serial.log.
C6_LoggedBeforeBroadcast ==
    \A c \in Clients : Queued(c) \subseteq Range(serial_log)

\* What subscriber c has been sent, oldest first: written to the client
\* (delivered, a prefix of the whole), in the relay's hand, still queued.
Stream(c) ==
    delivered[c]
        \o (IF client[c].outBuf = None THEN <<>> ELSE <<client[c].outBuf>>)
        \o (IF client[c].id = None THEN <<>> ELSE chan[client[c].id].buf)

\* C7: what a subscriber's client is sent is the run of consecutive chunks
\* that starts with the first chunk broadcast after its attach, each chunk
\* once and in the order read, and holds only chunks already broadcast.
C7_ContiguousDelivery ==
    \A c \in Clients :
        client[c].id # None =>
            /\ \A i \in 1..Len(Stream(c)) :
                    Stream(c)[i] = attachedAt[client[c].id] + i
            /\ Len(Stream(c)) <= BroadcastsSince(c)

\* A subscriber dropped by a full queue has had all 64 queued chunks written.
C7_Witness ==
    /\ ~Attached(SlowClient)
    /\ client[SlowClient].mainPc = "join_input"
    /\ Len(delivered[SlowClient]) = QueueCapacity
    /\ BroadcastsSince(SlowClient) > QueueCapacity


\* C18: a watch client is removed from the hub's subscribers only once its
\* connection has ended (the output task is done) or by the broadcast that
\* finds its queue full or disconnected; no other step of the daemon
\* detaches it.
C18_WatchStaysAttached ==
    [][\A c \in Clients :
         (client[c].access = "watch" /\ Attached(c) /\ ~(Attached(c))') =>
             \/ client[c].outPc = "done"
             \/ readerPc = "broadcast" /\ readerPc' # "broadcast"]_vars


\* C19: every write to guest input is made by a client that holds the
\* interactive role at the moment of the write (guest_input records the
\* client of each write).
C19_InputByOwnerOnly ==
    [][\A c \in Clients :
         guest_input' = Append(guest_input, c) =>
             CanWriteInput(hub, client[c].id)]_vars


\* The relay threads of a proxy_serial_stream call have ended and with them
\* every clone of the client's stream is dropped.
RelayEnded(c) ==
    /\ client[c].outPc \in {"none", "done"}
    /\ client[c].inPc \in {"none", "ok", "err"}
    /\ client[c].mainPc \in {"done", "clone_failed"}

\* C23: once a subscriber is detached from the hub, its relay threads end
\* and the client's connection is closed.
C23_UnwindAfterDetach ==
    \A c \in Clients :
        (client[c].id # None /\ ~Attached(c)) ~> RelayEnded(c)


\* C24 as stated: the read of a chunk that contains 0x1D ends the input
\* side of the relay.
C24_EscapeTerminates ==
    [][\A c \in Clients :
         (client[c].inPc = "read" /\ client'[c].inPc # "read"
               /\ HasEscape(client'[c].inBuf)) =>
             client'[c].inPc = "ok"]_vars

\* C24: the relay gives 0x1D no meaning of its own. A chunk that holds it
\* goes through the same test of the role as any other chunk; when it is
\* written to guest input the input side reads on and the subscriber stays
\* attached.
C24_EscapeIsData ==
    [][\A c \in Clients :
         /\ (client[c].inPc = "read" /\ client'[c].inPc # "read"
               /\ HasEscape(client'[c].inBuf)) =>
                client'[c].inPc = "check" /\ hub' = hub
         /\ (client[c].inPc = "check" /\ HasEscape(client[c].inBuf)
               /\ client'[c].inPc # "check") =>
                /\ client'[c].inPc = IF CanWriteInput(hub, client[c].id)
                                     THEN "write" ELSE "ok"
                /\ hub' = hub
         /\ (client[c].inPc = "write" /\ HasEscape(client[c].inBuf)
               /\ client'[c].inPc = "read") =>
                /\ guest_input' = Append(guest_input, c)
                /\ hub' = hub]_vars

\* A second chunk, one with the escape byte, was written to guest input by a
\* client that is still attached and reading.
C24_Witness ==
    /\ Len(guest_input) = MaxEscInput
    /\ client[RelayClient].inPc = "read"
    /\ HasEscape(client[RelayClient].inBuf)
    /\ Attached(RelayClient)


\* C25: with the hub mutex poisoned the daemon's threads still get the
\* lock: the reader's broadcast is made and the reader reads on, an attach
\* is decided by the role alone, the test of the role is made, and the
\* relay's detach removes the subscriber.
C25_PoisonRecovered ==
    [][poisoned =>
         /\ (readerPc = "broadcast" /\ readerPc' # "broadcast") => readerPc' = "read"
         /\ \A c \in Clients :
              /\ (client[c].mainPc = "idle" /\ client'[c].mainPc # "idle") =>
                     client'[c].mainPc # "poisoned"
              /\ (client[c].inPc = "check" /\ client'[c].inPc # "check") =>
                     client'[c].inPc \in {"write", "ok"}
              /\ (client[c].mainPc \in {"join_input", "detach"}
                    /\ client'[c].mainPc \in {"join_output", "done"}) =>
                     ~(Attached(c))']_vars


\* ------------------------------------------- properties of the lifecycle

Last(seq) == seq[Len(seq)]

Count(seq, e) == Cardinality({i \in 1..Len(seq) : seq[i] = e})

Index(seq, e) == CHOOSE i \in 1..Len(seq) : seq[i] = e

\* Daemon d is running, has written id.pid and bound id.sock, and has not
\* started to remove them.
Holding(d) ==
    /\ DaemonAlive(d)
    /\ {"pid", "sock"} \subseteq Range(dmn[d].hist)
    /\ "rm_sock" \notin Range(dmn[d].hist)

\* C1: for one instance name, at no time have two daemons both written id.pid
\* and bound id.sock; while one daemon holds them, id.pid names it and id.sock
\* is its socket.
C1_ExclusiveDaemon ==
    \A d \in Daemons : Holding(d) =>
        /\ \A e \in Daemons \ {d} : ~Holding(e)
        /\ pidFile = PidText(d)
        /\ sockFile = d

\* C2: inspect reports Running exactly when id.pid held a pid and the
\* signal-0 probe of that pid returned success or EPERM; after ESRCH the
\* status is Stopped and the step that follows the probe removes id.pid; when
\* id.pid was absent the status is Stopped and the read changed no file.
C2_InspectStatus ==
    /\ [](\A m \in Managers :
            /\ mgr[m].status = "Running" <=>
                  (mgr[m].read = "pid" /\ mgr[m].probe \in {"ok", "eperm"})
            /\ mgr[m].status = "Running" => mgr[m].daemon_pid = mgr[m].pid
            /\ (mgr[m].probe = "esrch" /\ mgr[m].pc # "remove") =>
                  mgr[m].status = "Stopped"
            /\ mgr[m].probe = "esrch" => mgr[m].pc \notin {"idle", "probe"}
            /\ mgr[m].read = "absent" => mgr[m].status = "Stopped")
    /\ [][\A m \in Managers :
            /\ (mgr[m].pc = "remove" /\ mgr'[m].pc # "remove") => pidFile' = Absent
            /\ (mgr[m].pc = "idle" /\ mgr'[m].read = "absent") =>
                  UNCHANGED <<pidFile, sockFile, stdoutLog>>]_vars

\* One inspect found a dead pid, removed the file and reported Stopped;
\* another found a live pid and reported Running.
C2_Witness ==
    \E m, n \in Managers :
        /\ mgr[m].probe = "esrch" /\ mgr[m].status = "Stopped"
        /\ mgr[n].probe \in {"ok", "eperm"} /\ mgr[n].status = "Running"

\* C8: a daemon that has written its Running event did so after writing
\* id.pid, binding id.sock, starting the driver and setting up the serial
\* hub, in this order; it writes at most one Running event; a daemon one of
\* whose startup steps failed has written none; every Running line in the
\* stdout log comes from a daemon that went through these steps.
C8_RunningAfterSetup ==
    /\ \A d \in Daemons :
          /\ "running" \in Range(dmn[d].hist) =>
                /\ Len(dmn[d].hist) >= 5
                /\ SubSeq(dmn[d].hist, 1, 5) = <<"pid", "sock", "driver", "serial", "running">>
          /\ Count(dmn[d].hist, "running") <= 1
          /\ dmn[d].fail \in {"inspect", "pid", "sock", "driver", "serial", "emit"} =>
                "running" \notin Range(dmn[d].hist)
    /\ \A i \in 1..Len(stdoutLog) :
          stdoutLog[i].type = "Running" =>
              "running" \in Range(dmn[stdoutLog[i].by].hist)

\* A daemon wrote its Running event, and another failed to start its driver.
C8_Witness ==
    \E d, e \in Daemons :
        /\ "running" \in Range(dmn[d].hist)
        /\ \E i \in 1..Len(stdoutLog) : stdoutLog[i] = [type |-> "Running", by |-> d]
        /\ dmn[e].fail = "driver"

C10_RunningFromOwnDaemon ==
    \A m \in Managers : mgr[m].result = "ok" => mgr[m].sawBy = m


\* A start command that has gone past the tests of InstanceManager::start
\* on an Instance value whose status is Running.
StartedOnRunning(m) ==
    /\ mgr[m].cmd = "start"
    /\ mgr[m].status = "Running"
    /\ mgr[m].pc # "start"

\* C11 as stated: start on an instance whose status is Running fails with
\* InstanceAlreadyRunning.
C11_AlreadyRunning ==
    \A m \in Managers : StartedOnRunning(m) =>
        mgr[m].pc = "failed" /\ mgr[m].result = "already_running"

\* C11: start on an instance whose status is Running fails, with
\* InstanceAlreadyRunning when the config's network mode passes
\* validate_network_mode and with the validation's error otherwise, and has
\* no effect: it spawns no daemon and truncates neither log (nor touches
\* id.pid or id.sock).
C11_StartRefused ==
    /\ [](\A m \in Managers : StartedOnRunning(m) =>
            /\ mgr[m].pc = "failed"
            /\ mgr[m].result = IF netValid THEN "already_running" ELSE "invalid_network"
            /\ dmn[m].pc = "none")
    /\ [][\A m \in Managers :
            (mgr[m].cmd = "start" /\ mgr[m].status = "Running"
                /\ mgr[m].pc = "start" /\ mgr'[m].pc # "start") =>
                UNCHANGED <<dmn, stdoutLog, stderrLog, pidFile, sockFile>>]_vars

\* A start was refused with InstanceAlreadyRunning while the stdout log held
\* the Running line of the live daemon.
C11_Witness ==
    \E m \in Managers :
        /\ StartedOnRunning(m)
        /\ mgr[m].result = "already_running"
        /\ stdoutLog # <<>>
        /\ \E d \in Daemons : DaemonAlive(d)

\* C12: a stop on an Instance value without a daemon PID fails with
\* InstanceNotRunning and makes no kill call; a stop on one with a PID makes
\* exactly one kill call, to that PID; either way the command is over with
\* that step, whatever the daemon does afterwards.
C12_StopSignalsOnce ==
    \A m \in Managers : mgr[m].cmd = "stop" =>
        /\ mgr[m].pc \in {"idle", "probe", "remove", "start"} => mgr[m].sent = <<>>
        /\ mgr[m].pc \notin {"idle", "probe", "remove", "start"} =>
              /\ mgr[m].pc \in {"done", "failed"}
              /\ mgr[m].read # "invalid" =>
                    IF mgr[m].daemon_pid = None
                    THEN mgr[m].result = "not_running" /\ mgr[m].sent = <<>>
                    ELSE /\ mgr[m].sent = <<mgr[m].daemon_pid>>
                         /\ mgr[m].result \in {"signalled", "kill_failed"}
              /\ mgr[m].read = "invalid" => mgr[m].sent = <<>>

\* A stop has returned after its one SIGINT while the daemon it signalled
\* has the flag set and is still running.
C12_Witness ==
    \E m \in Managers :
        /\ mgr[m].cmd = "stop" /\ mgr[m].result = "signalled"
        /\ mgr[m].sent = <<mgr[m].daemon_pid>>
        /\ mgr[m].daemon_pid \in Daemons
        /\ DaemonAlive(mgr[m].daemon_pid)
        /\ dmn[mgr[m].daemon_pid].flag


\* ---------------------------------------- properties of the control socket

\* The open_device calls made for connection c, in order.
SshCalls(c) == SelectSeq(devOpens, LAMBDA r : r.c = c)

\* starting frames for attempts 1..n
StartingRun(n) == [i \in 1..n |-> StartingFrame(i)]

\* C16: for an ssh open_service the daemon calls open_device at most 5 times,
\* consecutive calls 2 seconds of sleep apart and none after a success; when
\* the k-th call is the first to succeed the frames are k-1 starting frames
\* (attempt 1..k-1, max_attempts 5, retry_after_secs 2) and then opened; when
\* 5 calls failed the frames are 4 starting frames and then one error frame
\* with code service_unavailable; before that the frames are the starting
\* frames of the failed calls.
C16_SshRetry ==
    \A c \in Clients :
        LET calls == SshCalls(c)
            n == Len(calls)
            frames == conn[c].frames
        IN  (conn[c].req.body = "open_service" /\ conn[c].req.service = "ssh"
                /\ conn[c].req.version = 1 /\ conn[c].req.options = "none") =>
            /\ n <= 5
            /\ \A i \in 1..(n - 1) :
                  /\ calls[i + 1].at - calls[i].at = 2
                  /\ calls[i].out # "vsock"
            /\ (n > 0 /\ calls[n].out = "vsock") =>
                  frames = StartingRun(n - 1) \o <<OpenedFrame>>
            /\ (n = 5 /\ calls[n].out # "vsock") =>
                  frames = StartingRun(4) \o <<ErrorFrame("service_unavailable")>>
            /\ (n < 5 /\ (n = 0 \/ calls[n].out # "vsock")) =>
                  frames = StartingRun(n)
            /\ \A i \in 1..Len(frames) : frames[i].type = "starting" =>
                  frames[i].max_attempts = 5 /\ frames[i].retry_after_secs = 2

\* One ssh open_service succeeded at its third call, another used up its
\* five calls.
C16_Witness ==
    \E c, o \in Clients :
        /\ conn[c].result = "opened" /\ Len(SshCalls(c)) = 3
        /\ conn[o].result = "unavailable" /\ Len(SshCalls(o)) = 5

\* C17: a serial client is sent opened only after its attach to the hub has
\* succeeded, and a client whose attach was refused is not sent opened.
C17_OpenedAfterAttach ==
    \A c \in Clients :
        (conn[c].req.service = "serial" /\ OpenedFrame \in Range(conn[c].frames)) =>
            /\ client[c].id # None
            /\ client[c].mainPc # "refused"

\* A request the claim calls rejected by validation, and the code it names.
RejectedAs(req) ==
    IF req.version # 1 THEN "unsupported_version"
    ELSE IF req.body # "open_service" THEN "-"
    ELSE IF req.service \notin {"ssh", "serial"} THEN "unknown_service"
    ELSE IF req.service = "ssh" /\ req.options # "none" THEN "unsupported_request"
    ELSE IF req.service = "serial" /\ req.options \notin {"none", "watch", "interactive"}
         THEN "unsupported_request"
    ELSE "-"

\* C20: a request rejected by validation is answered by one frame, the error
\* with the code of the reason, and the connection is closed; no device is
\* opened and no hub attach is made for it.
C20_RejectedRequest ==
    \A c \in Clients :
        (conn[c].pc # "none" /\ conn[c].result # "bad_request"
            /\ RejectedAs(conn[c].req) # "-") =>
            /\ conn[c].frames = <<ErrorFrame(RejectedAs(conn[c].req))>>
            /\ conn[c].pc = "closed"
            /\ SshCalls(c) = <<>>
            /\ client[c] = NoClient
            /\ \A id \in hub.subscribers : \E o \in Clients \ {c} : client[o].id = id

\* A version-2 request and a serial request with invalid options were both
\* rejected.
C20_Witness ==
    \E c, o \in Clients :
        /\ conn[c].result = "rejected" /\ conn[c].req.version = 2
        /\ conn[o].result = "rejected" /\ conn[o].req.version = 1
        /\ conn[o].req.service = "serial" /\ conn[o].req.options = "invalid"

\* C30: while handle_client is at work for one connection (here: between
\* the attempts of an ssh open_service), the daemon can take up another
\* connection that is waiting and answer it.
C30_NoHeadOfLineBlocking ==
    \A c, o \in Clients :
        (c # o /\ InHandler(c) /\ conn[o].pc = "none") => ENABLED HandleClient(o)


\* C26: a line of more than 16384 bytes makes read_json_line return
\* InvalidData, by the byte that takes it over the limit, and handle_client
\* then returns without a request dispatched or a frame written, the
\* connection dropped; a line of at most 16384 bytes (of text) is read to
\* its end and read successfully.
C26_LineLimit ==
    /\ rd.pc = "done" =>
          IF reqLine.len > MAX_CONTROL_LINE_BYTES
          THEN rd.result = "InvalidData" /\ rd.n = MAX_CONTROL_LINE_BYTES + 1
          ELSE rd.n = reqLine.len /\ (reqLine.utf8 => rd.result = "ok")
    /\ rd.n <= MAX_CONTROL_LINE_BYTES + 1
    /\ (rd.pc # "done" \/ rd.result # "ok") =>
          /\ conn[LineConn].frames = <<>>
          /\ devOpens = <<>>
          /\ conn[LineConn].pc \in {"none", "closed"}
          /\ client[LineConn].mainPc = "idle"
    /\ (rd.result = "InvalidData" /\ conn[LineConn].pc # "none") =>
          conn[LineConn].pc = "closed" /\ conn[LineConn].result = "bad_request"

\* A line of 16385 bytes was refused and its connection dropped.
C26_Witness ==
    /\ reqLine.len = MAX_CONTROL_LINE_BYTES + 1
    /\ rd.result = "InvalidData"
    /\ conn[LineConn].pc = "closed"


\* ------------------------------------------- properties of the registry

\* C13: delete on an Instance whose status is Running fails with
\* InstanceAlreadyRunning and leaves the directory and id.pid as they were;
\* otherwise a delete that returns Ok leaves no instance directory, the only
\* other outcome is remove_dir_all's error, and delete returns Ok when the
\* directory is already absent.
C13_DeleteContract ==
    [][\A k \in Callers :
         (op[k].pc = "delete" /\ op'[k].pc # "delete") =>
             IF op[k].status = "Running"
             THEN /\ op'[k].result = "InstanceAlreadyRunning"
                  /\ dir' = dir
                  /\ pidFile' = pidFile
             ELSE /\ op'[k].result \in {"ok", "Io"}
                  /\ op'[k].result = "ok" => dir' = NoDir /\ pidFile' = Absent
                  /\ dir = NoDir => op'[k].result = "ok"]_vars

\* One delete was refused for a running instance, one removed the directory
\* and one found it already removed.
C13_Witness ==
    \E k1, k2, k3 \in Callers :
        /\ op[k1].cmd = "delete" /\ op[k1].result = "InstanceAlreadyRunning"
        /\ op[k2].cmd = "delete" /\ op[k2].result = "ok" /\ op[k2].found.kind = "dir"
        /\ op[k3].cmd = "delete" /\ op[k3].result = "ok" /\ op[k3].found = NoDir
        /\ dir = NoDir

\* C14 as stated: a create that finds the directory in place fails with
\* InstanceAlreadyCreated and changes nothing in the directory.
C14_AlreadyCreated ==
    [][\A k \in Callers :
         (op[k].pc = "idle" /\ op'[k].cmd = "create" /\ dir.kind = "dir") =>
             /\ op'[k].result = "InstanceAlreadyCreated"
             /\ dir' = dir
             /\ pidFile' = pidFile]_vars

\* C15 as stated: the step in which create fails after the directory was
\* made leaves no instance directory.
C15_AtomicCreate ==
    [][\A k \in Callers :
         (op[k].cmd = "create" /\ op[k].pc # "failed" /\ op'[k].pc = "failed"
            /\ op'[k].result \in CreateStepErrors) =>
             dir'.kind = "absent"]_vars

\* ---------------------------------------- properties of the control client

\* The lines read so far were all starting frames of the right version.
OnlyStarting(n) == \A i \in 1..n : OnFrame(wire[i]) = "continue"

\* C21: the client holds the tunnel exactly when the last line it read is
\* an opened frame and every line before it a starting frame; it goes on
\* reading while it has read starting frames only (until a read itself
\* fails: the peer closed or the timeout ran out); an error or a services
\* frame ends open_service in failure; bytes are relayed only through the
\* tunnel, and the handshake timeouts are cleared exactly in that case.
C21_TunnelAfterOpened ==
    /\ cli.pc = "tunnel" <=>
          /\ cli.pos > 0
          /\ OnFrame(wire[cli.pos]) = "opened"
          /\ OnlyStarting(cli.pos - 1)
    /\ (cli.pos > 0 /\ OnlyStarting(cli.pos)) =>
          cli.pc = "reading" \/ (cli.pc = "failed" /\ cli.result = "read")
    /\ (cli.pos > 0 /\ wire[cli.pos].type \in {"error", "services"}) =>
          cli.pc = "failed"
    /\ cli.relayed > 0 => cli.pc = "tunnel"
    /\ cli.read_timeout = None <=> cli.pc = "tunnel"
    /\ cli.write_timeout = None <=> cli.pc = "tunnel"

\* Two starting frames, then opened, and a byte has gone through.
C21_Witness ==
    /\ cli.pc = "tunnel"
    /\ cli.pos = MaxFrames
    /\ cli.relayed > 0

\* ---------------------------------------- properties of the vsock relay

\* Both threads of the relay have ended, so every descriptor of the client
\* socket and of the vsock connection the relay held is closed.
Released(t) == tun[t].fwd = "done" /\ tun[t].main \in {"done", "failed"}

\* C22: once the guest side has reached EOF or the client has closed, the
\* relay ends: both threads finish and the descriptors are released.
C22_EndsOnEitherClose ==
    \A t \in Tunnels :
        (tun[t].guest = "eof" \/ tun[t].client = "closed") ~> Released(t)

\* The entries of `disks` that are root disks (an entry without a role is one).
RootEntries(disks) == {k \in DOMAIN disks : disks[k].role # "data"}
FirstRoot(disks) ==
    disks[CHOOSE k \in RootEntries(disks) : \A j \in RootEntries(disks) : k <= j]

\* C27: root_disk returns MultipleRootDisks{count} when more than one
\* entry is a root disk; else the first root disk; else the default
\* rootfs.img if it is a file, also when only data disks are configured;
\* else none.
C27_DefaultAlsoWithDataDisks ==
    diskRes.pc = "done" =>
        diskRes.value =
            IF Cardinality(RootEntries(inst.disks)) > 1
            THEN MultipleRootDisks(Cardinality(RootEntries(inst.disks)))
            ELSE IF RootEntries(inst.disks) # {}
            THEN OkDisk(<<resolve_config_disk(FirstRoot(inst.disks))>>)
            ELSE IF inst.rootfs = "file"
            THEN OkDisk(<<[path |-> DefaultRoot, read_only |-> FALSE]>>)
            ELSE OkDisk(<<>>)

\* The image ids the tags of a registry point at, and the names of its tags.
TaggedIds(reg) == {reg.tags[k].image_id : k \in DOMAIN reg.tags}
NamesOf(reg) == {reg.tags[k].name : k \in DOMAIN reg.tags}
IdOfTag(reg, name) ==
    reg.tags[CHOOSE k \in DOMAIN reg.tags : reg.tags[k].name = name].image_id

\* C28: remove_image of an unknown tag is TagNotFound and changes nothing;
\* a removal that succeeds takes exactly that tag out of the registry, and
\* takes the image record and the image directory with it exactly when no
\* tag left points at the image.
C28_RemoveImage ==
    rm.op = "remove" =>
        /\ rm.result = "TagNotFound" <=> rm.tag \notin NamesOf(rm.before.reg)
        /\ rm.result = "TagNotFound" =>
               regFile = rm.before.reg /\ imageDirs = rm.before.dirs
        /\ rm.result = "Ok" =>
               LET id == IdOfTag(rm.before.reg, rm.tag)
                   NotNamed(t) == t.name # rm.tag
                   NotImage(i) == i # id
               IN  /\ regFile.tags = SelectSeq(rm.before.reg.tags, NotNamed)
                   /\ IF id \in TaggedIds(regFile)
                      THEN /\ regFile.images = rm.before.reg.images
                           /\ imageDirs = rm.before.dirs
                      ELSE /\ regFile.images = SelectSeq(rm.before.reg.images, NotImage)
                           /\ imageDirs = rm.before.dirs \ {id}

\* The last tag of an image was removed, and its record and directory with
\* it, while another image kept its tag, its record and its directory.
C28_Witness ==
    /\ rm.op = "remove" /\ rm.result = "Ok"
    /\ \E id \in ImageIds :
           /\ id \in rm.before.dirs /\ id \notin imageDirs
           /\ ImagePosition(rm.before.reg.images, id) # 0
           /\ ImagePosition(regFile.images, id) = 0
    /\ \E id \in ImageIds :
           /\ id \in TaggedIds(regFile) /\ id \in imageDirs
           /\ ImagePosition(regFile.images, id) # 0

\* C29: decompressing compress(c, B) as c ends with Ok and leaves a file
\* whose bytes are B, whatever the file held before and however the decoder
\* splits the stream into reads, reads of zeros skipped by seek included.
C29_RoundTrip ==
    (dz.pc = "done" /\ blob.frame.magic = dz.compression) =>
        /\ dz.result = "Ok"
        /\ outFile.bytes = blob.data
        /\ Len(outFile.bytes) = Len(blob.data)

\* A round trip is done whose first read was written and whose other two
\* reads, the last one included, were all zeros and skipped by seek.
C29_Witness ==
    /\ dz.pc = "done" /\ dz.result = "Ok"
    /\ blob.data = <<1, 0, 0, 0>>
    /\ dz.last = "seek" /\ dz.seeks = 2
    /\ outFile.bytes = blob.data

\* Daemon d has left run() through the loop's exit: driver.stop() was
\* called and both guards were dropped.
CleanExit(d) ==
    /\ dmn[d].pc = "exited"
    /\ "stop" \in Range(dmn[d].hist)
    /\ "rm_sock" \in Range(dmn[d].hist)
    /\ "rm_pid" \in Range(dmn[d].hist)

\* C31: once SIGINT or SIGTERM has set the flag of a daemon in its accept
\* loop, the daemon sees the flag, calls driver.stop() and exits with
\* id.pid and id.sock removed, whatever its clients do.
C31_SignalEndsDaemon ==
    dmn[ShutDaemon].flag ~>
        (CleanExit(ShutDaemon) /\ dmn[ShutDaemon].seen
            /\ pidFile = Absent /\ sockFile = None)

\* The daemon has exited cleanly after it accepted a client that sent
\* nothing and an ssh open_service that went through its retry loop.
C31_Witness ==
    /\ CleanExit(ShutDaemon) /\ dmn[ShutDaemon].seen
    /\ pidFile = Absent /\ sockFile = None
    /\ \E c, o \in Clients :
           /\ conn[c].result = "would_block"
           /\ conn[o].attempt = SERVICE_OPEN_MAX_ATTEMPTS

\* bentoctl stop has sent its SIGINT to daemon d.
StoppedByManager(d) ==
    \E m \in Managers : mgr[m].cmd = "stop" /\ d \in Range(mgr[m].sent)

\* C32: a daemon that had written id.pid when stop sent it SIGINT, and is
\* gone, has left run() with its guards dropped (id.pid removed, id.sock
\* removed if it was bound) and with driver.stop() called if the driver was
\* started: also when the signal came before the handlers were registered.
C32_StopAlwaysClean ==
    \A d \in Daemons :
        (StoppedByManager(d) /\ "pid" \in Range(dmn[d].hist) /\ ~DaemonAlive(d)) =>
            /\ dmn[d].pc = "exited"
            /\ "rm_pid" \in Range(dmn[d].hist)
            /\ "sock" \in Range(dmn[d].hist) => "rm_sock" \in Range(dmn[d].hist)
            /\ "driver" \in Range(dmn[d].hist) => "stop" \in Range(dmn[d].hist)

\* C33: the instance directory is never removed while a daemon of the
\* instance is live, however delete and start interleave.
C33_NoDeleteUnderDaemon ==
    dir.kind = "absent" => \A d \in Daemons : ~DaemonAlive(d)

\* C34: the remove_file of read_pid_file, made after the probe found the
\* pid dead, never removes an id.pid that holds the pid of a live daemon
\* (written since the file was read).
C34_RemovesOnlyStaleFile ==
    [][\A m \in Managers :
          (mgr[m].pc = "remove" /\ mgr'[m].pc # "remove") =>
              ~(/\ pidFile.kind = "pid"
                /\ pidFile.pid \in Daemons
                /\ DaemonAlive(pidFile.pid)
                /\ pidFile' = Absent)]_vars

\* The frames that end a response.
Terminal(frame) == frame.type \in {"opened", "services", "error"}

\* handle_client has returned for connection c without an I/O error, after
\* it had read a request.
Answered(c) ==
    /\ conn[c].pc \in {"closed", "tunnel", "serial"}
    /\ conn[c].result \notin {"io", "bad_request", "would_block"}

\* C35: the frames written for a request are starting frames followed by
\* one terminal frame (opened, services or error), which is the last frame;
\* starting frames are written for an ssh open_service only; every frame
\* carries version 1 and the id of the request. A response whose write
\* fails ends there.
C35_FrameGrammar ==
    \A c \in Clients :
        LET frames == conn[c].frames IN
        /\ \A i \in 1..(Len(frames) - 1) : frames[i].type = "starting"
        /\ \A i \in 1..Len(frames) :
               frames[i].type = "starting" =>
                   conn[c].req.body = "open_service" /\ conn[c].req.service = SERVICE_SSH
        /\ \A i \in 1..Len(frames) : Terminal(frames[i]) \/ frames[i].type = "starting"
        /\ Answered(c) => frames # <<>> /\ Terminal(frames[Len(frames)])
        /\ Len(conn[c].envelopes) = Len(frames)
        /\ \A i \in 1..Len(frames) :
               conn[c].envelopes[i] = [version |-> 1, id |-> conn[c].req.id]

\* Two answered connections whose requests had different ids: an ssh
\* open_service with starting frames before its terminal frame, and another
\* request answered by a single frame.
C35_Witness ==
    \E c, o \in Clients :
        /\ Answered(c) /\ Answered(o)
        /\ conn[c].req.id # conn[o].req.id
        /\ Len(conn[c].frames) >= 3 /\ conn[c].frames[1].type = "starting"
        /\ Len(conn[o].frames) = 1

\* Client c holds the interactive role.
Owner(c) == client[c].id # None /\ hub.interactive_owner = client[c].id

\* C36: once the client that holds the interactive role has half-closed or
\* closed its connection, the hub's interactive owner does not stay that
\* client's subscriber forever.
C36_RoleReleased ==
    \A c \in Clients : (Owner(c) /\ peer[c] # "open") ~> ~Owner(c)

\* C37: once the cleanup of a run without --keep has begun, the instance
\* directory is eventually removed and no daemon is left.
C37_RunLeavesNothing ==
    mgr[RunManager].cmd = "stop"
        ~> (dir.kind = "absent" /\ \A d \in Daemons : ~DaemonAlive(d))

\* Every image record of the registry is the image of some tag.
EveryImageTagged(reg) == Range(reg.images) \subseteq TaggedIds(reg)

\* C38: a pull, import or remove_image that changes the tags of a registry
\* in which every image record is referenced by a tag leaves a registry in
\* which every image record is referenced by a tag.
C38_NoOrphanImage ==
    [][(EveryImageTagged(regFile) /\ regFile'.tags # regFile.tags)
          => EveryImageTagged(regFile')]_vars

\* C39: with no publication and no subscribe_state in progress, the value
\* a subscriber's channel holds is the state published last.
C39_HeldIsLatest ==
    \A s \in Subscribers :
        (obs.pc = "idle" /\ sub[s].pc = "done" /\ vchan[s] # <<>>)
            => vchan[s] = <<current_state>>

\* The bytes write number k covers, padding included, lie before those of
\* write number l.
Before(k, l) == iso.writes[k].at + iso.writes[k].padded <= iso.writes[l].at

\* C40: in the image write_cidata_iso has written, the directory record of
\* every file holds the sector and the length at which the file's bytes
\* were written; every file starts on a sector boundary after the sectors
\* of the root directory; the sectors reserved for the root directory are
\* exactly those its packed records fill; and no two extents overlap.
C40_IsoLayout ==
    iso.pc = "done" =>
        /\ \A i \in 1..Len(entries) :
              LET record == iso.records[i + 2]
                  write == iso.writes[i + 1]
              IN  /\ ~record.is_dir
                  /\ record.extent_lba * SECTOR_SIZE = write.at
                  /\ record.data_len = write.len
                  /\ write.len = entries[i].len
                  /\ write.at % SECTOR_SIZE = 0
                  /\ write.at >= (iso.root_dir_lba + iso.root_dir_sectors) * SECTOR_SIZE
        /\ iso.root_dir_sectors * SECTOR_SIZE = iso.root_dir_len
        /\ iso.writes[1] = [at |-> iso.root_dir_lba * SECTOR_SIZE, len |-> iso.root_dir_len,
                            padded |-> iso.root_dir_len]
        /\ \A k, l \in 1..Len(iso.writes) : k < l => Before(k, l)

\* An image whose root directory fills two sectors and which holds an
\* empty file, a file of less than a sector and a file of more than one.
C40_Witness ==
    /\ iso.pc = "done"
    /\ iso.root_dir_sectors = 2
    /\ \E i, j, k \in 1..Len(entries) :
          /\ entries[i].len = 0
          /\ entries[j].len = 1
          /\ entries[k].len > SECTOR_SIZE
          /\ i < j

====
